---- MODULE Spec2Model ----
(***************************************************************************)
(* Stock analysis and ranking pipeline of stock-talk                       *)
(* (app/services/report_generator.py, app/services/stock_fetcher.py,       *)
(* app/core/config.py).                                                    *)
(*                                                                         *)
(* Numbers.  Python floats are modelled as integers in hundredths: a       *)
(* ratio of 0.25 is 25, a percentage of 45.0 is 4500, a score of 80.0 is   *)
(* 8000.  Mention counts and analyst counts are plain integers.  None is   *)
(* a value outside every domain; Truthy is Python's truth test on an       *)
(* Optional number (None and 0 are both false).                            *)
(***************************************************************************)
EXTENDS Integers, Sequences, FiniteSets, TLC

VARIABLES
    (* ---- ScoringEngine harness: one snapshot, one call ---- *)
    stock,              \* StockData handed to _calculate_score
    reddit_mentions,    \* mention count handed to _calculate_score
    sentiment,          \* average sentiment handed to _calculate_score
    score,              \* value returned by _calculate_score, None before the call
    last_op,            \* which operation produced the current state
    (* ---- analysis harness: the per-stock calls of the loop body ---- *)
    now,                \* datetime.now(), in hours
    signals,            \* value returned by _count_signals
    buy_case,           \* value returned by _generate_buy_case
    risk_factors,       \* value returned by _generate_risk_factors
    target_upside_pct,  \* ReportStock.target_upside_pct computed in step 8
    raised,             \* exception the last call raised, "" when it returned
    (* ---- generate_report ---- *)
    aggregated,         \* dict ticker -> mention data, in insertion order
    market,             \* what fetch_stock answers for each ticker
    max_stocks,         \* ReportGenerator.max_stocks
    pc,                 \* position inside generate_report
    qualifying_tickers, \* tickers sent to the metrics provider
    stock_data_map,     \* keys of the dict ticker -> StockData, in insertion
                        \* order; the value of key t is market[t]
    analyzed_stocks,    \* list[AnalyzedStock]
    dark_horses,        \* list returned by _identify_dark_horses; this list
                        \* and the next two hold references to the objects
                        \* of analyzed_stocks, named by ticker
    main_picks,
    final_picks,
    report_stocks,      \* ReportStock rows of the report, in creation order
    db,                 \* committed DailyReport rows, each with its ReportStock
                        \* rows
    (* ---- calls outside the single run ---- *)
    sector_category,    \* value returned by _categorize_sector
    sessions,           \* callers of generate_report, each with its own
                        \* Session: position, pending transaction, outcome
    request             \* one FinnhubClient._make_request call

vars == <<stock, reddit_mentions, sentiment, score, last_op,
          now, signals, buy_case, risk_factors, target_upside_pct, raised,
          aggregated, market, max_stocks, pc, qualifying_tickers,
          stock_data_map, analyzed_stocks, dark_horses, main_picks,
          final_picks, report_stocks, db,
          sector_category, sessions, request>>

scoreVars == <<stock, reddit_mentions, sentiment, score, last_op>>

analysisVars == <<now, signals, buy_case, risk_factors, target_upside_pct,
                  raised>>

reportVars == <<aggregated, market, max_stocks, pc, qualifying_tickers,
                stock_data_map, analyzed_stocks, dark_horses, main_picks,
                final_picks, report_stocks, db>>

(***************************************************************************)
(* Configuration                                                           *)
(***************************************************************************)
TOP_STOCKS_COUNT == 20
DARK_HORSE_COUNT == 2
MIN_REDDIT_MENTIONS == 5
DARK_HORSE_MAX_MENTIONS == 50
\* DARK_HORSE_MAX_INSTITUTIONAL (0.40) * 100, in hundredths of a percent
DARK_HORSE_MAX_INSTITUTIONAL_PCT == 4000
MAX_STOCKS_WEB == 15
MAX_STOCKS_WORKER == 60
\* score floor of _identify_dark_horses (50), in hundredths
DARK_HORSE_SCORE_FLOOR == 5000

(***************************************************************************)
(* Python values                                                           *)
(***************************************************************************)
None == -999999

Truthy(x) == x # None /\ x # 0

Min(a, b) == IF a <= b THEN a ELSE b

\* what a call gives back: the exception it raised, or the value it returned
Raise(e) == [raised |-> e, value |-> None]

Return(v) == [raised |-> "", value |-> v]

\* the exception a / b raises, "" when the division is evaluated
DivisionError(b) ==
    IF b = None THEN "TypeError"
    ELSE IF b = 0 THEN "ZeroDivisionError" ELSE ""

\* round(a / b) to the nearest integer, ties to even (b > 0)
RoundDiv(a, b) ==
    LET q == a \div b
        r == a % b
    IN  IF 2 * r > b THEN q + 1
        ELSE IF 2 * r = b THEN q + (q % 2)
        ELSE q

(***************************************************************************)
(* StockFetcher.fetch_stock: debtToEquity arrives as a percentage and is   *)
(* converted to a ratio rounded to 2 decimals; a missing or zero value is  *)
(* stored as it came.  raw is in hundredths of a percent.                  *)
(***************************************************************************)
FetchDebtToEquity(raw) ==
    IF Truthy(raw) THEN RoundDiv(raw, 100) ELSE raw

(***************************************************************************)
(* ReportGenerator._calculate_score, one operator per rule family.         *)
(* Bonuses are in hundredths of a point.                                   *)
(***************************************************************************)
DiscountBonusBelowFifty1000(s) ==
    IF Truthy(s.pct_from_ath)
    THEN IF 1500 <= s.pct_from_ath /\ s.pct_from_ath < 5000
         THEN Min(s.pct_from_ath, 4000) * 15
         ELSE IF s.pct_from_ath > 5000 THEN 40000 ELSE 0
    ELSE 0

\* in thousandths of a point: min(pct, 40) * 1.5
DiscountBonus1000(s) ==
    IF Truthy(s.pct_from_ath)
    THEN IF 1500 <= s.pct_from_ath /\ s.pct_from_ath <= 5000
         THEN Min(s.pct_from_ath, 4000) * 15
         ELSE IF s.pct_from_ath > 5000 THEN 40000 ELSE 0
    ELSE 0

MentionBonus(m) ==
    IF 10 <= m /\ m <= 100 THEN 2000
    ELSE IF m > 100 THEN 1000 ELSE 0

SentimentBonus(sent) ==
    IF sent > 30 THEN 1500
    ELSE IF sent > 0 THEN 1000 ELSE 0

RsiBonusBothBranches(s) ==
    (IF Truthy(s.rsi) /\ s.rsi < 3000 THEN 2500 ELSE 0)
    + (IF Truthy(s.rsi) /\ s.rsi < 4000 THEN 1500 ELSE 0)

RsiBonusUnguarded(s) ==
    IF s.rsi < 3000 THEN 2500
    ELSE IF s.rsi < 4000 THEN 1500 ELSE 0

RsiBonus(s) ==
    IF Truthy(s.rsi) /\ s.rsi < 3000 THEN 2500
    ELSE IF Truthy(s.rsi) /\ s.rsi < 4000 THEN 1500 ELSE 0

PeBonus(s) ==
    IF Truthy(s.pe_ratio)
    THEN IF 500 < s.pe_ratio /\ s.pe_ratio < 1500 THEN 2000
         ELSE IF 1500 <= s.pe_ratio /\ s.pe_ratio < 2500 THEN 1000 ELSE 0
    ELSE 0

PegBonus(s) ==
    IF Truthy(s.peg_ratio) /\ s.peg_ratio < 100 THEN 2000 ELSE 0

DebtBonus(s) ==
    IF Truthy(s.debt_to_equity) /\ s.debt_to_equity < 50 THEN 1500
    ELSE IF Truthy(s.debt_to_equity) /\ s.debt_to_equity < 100 THEN 1000
    ELSE 0

FcfBonus(s) ==
    IF Truthy(s.free_cash_flow) /\ s.free_cash_flow > 0 THEN 1500 ELSE 0

\* recent_buys = [a for a in stock.insider_activity if a.get("type") == "buy"]
RecentBuys(s) == SelectSeq(s.insider_activity, LAMBDA a : a.type = "buy")

InsiderBonus(s) == IF RecentBuys(s) # <<>> THEN 2000 ELSE 0

UpsideGuardTargetOnly(s) == Truthy(s.target_price_mean)

\* if stock.target_price_mean and stock.current_price: the test under which
\* _calculate_score (line 192) and step 8 (line 754) divide by the price
UpsideGuard(s) == Truthy(s.target_price_mean) /\ Truthy(s.current_price)

\* upside = ((target - price) / price) * 100, compared without dividing
\* (price > 0 in every snapshot that reaches the comparison)
UpsideBonus(s) ==
    IF UpsideGuard(s)
    THEN IF (s.target_price_mean - s.current_price) * 100 > 30 * s.current_price
         THEN 2000
         ELSE IF (s.target_price_mean - s.current_price) * 100 > 15 * s.current_price
              THEN 1000 ELSE 0
    ELSE 0

\* the exception of the division at line 193, "" when the call returns
ScoreError(s) ==
    IF UpsideGuard(s) THEN DivisionError(s.current_price) ELSE ""

\* round(score, 2): the sum is held in thousandths and rounded to hundredths
_calculate_score(s, m, sent) ==
    RoundDiv(DiscountBonus1000(s)
             + 10 * (MentionBonus(m) + SentimentBonus(sent) + RsiBonus(s)
                     + PeBonus(s) + PegBonus(s) + DebtBonus(s) + FcfBonus(s)
                     + InsiderBonus(s) + UpsideBonus(s)),
             10)

\* score = self._calculate_score(stock_data, mentions, sentiment)
ScoreCall(s, m, sent) ==
    IF ScoreError(s) # "" THEN Raise(ScoreError(s))
    ELSE Return(_calculate_score(s, m, sent))

(***************************************************************************)
(* StockData (stock_fetcher.py), restricted to the fields read by          *)
(* _calculate_score, _identify_dark_horses and generate_report's filter.   *)
(***************************************************************************)
StockData(t, valid, pct, price, rsi, pe, peg, de, fcf, ins, tgt, inst, cap, ac) ==
    [ticker |-> t, is_valid |-> valid, pct_from_ath |-> pct,
     current_price |-> price, rsi |-> rsi, pe_ratio |-> pe, peg_ratio |-> peg,
     debt_to_equity |-> de, free_cash_flow |-> fcf,
     insider_activity |-> ins, target_price_mean |-> tgt,
     institutional_ownership |-> inst, market_cap_category |-> cap,
     analyst_count |-> ac]

\* the fields of a snapshot that _calculate_score reads
ScoredFields ==
    {"pct_from_ath", "current_price", "rsi", "pe_ratio", "peg_ratio",
     "debt_to_equity", "free_cash_flow", "insider_activity",
     "target_price_mean"}

\* what a field holds when the provider has no value for it: None for the
\* Optional fields, the dataclass default for the others
AbsentValue(f) ==
    IF f \in {"pct_from_ath", "current_price"} THEN 0
    ELSE IF f = "insider_activity" THEN <<>>
    ELSE None

(***************************************************************************)
(* Scoring harness: snapshots drawn from bounded domains, scored once,     *)
(* then re-scored after a field is removed or the leverage changes.        *)
(***************************************************************************)
PctDomain == {0, 2000, 4500, 6000}
PriceDomain == {0, 10000}
RsiDomain == {None, 2500, 3500}
PeDomain == {None, 1000, 2000}
PegDomain == {None, 80}
\* debtToEquity as the provider sends it (percent, in hundredths):
\* missing, 0, 0.3%, 20%, 70%, 150%
RawDebtDomain == {None, 0, 30, 2000, 7000, 15000}
FcfDomain == {None, 200}
\* transactions as _get_insider_activity builds them: type and dollar value
Transaction(type, value) == [type |-> type, value |-> value]

InsiderDomain ==
    {<<>>, <<Transaction("sell", 500000), Transaction("buy", 2000000)>>}
TargetDomain == {None, 12000, 15000}
MentionDomain == {5, 50, 150}
SentimentDomain == {-20, 10, 40}

IdleStock ==
    StockData(0, TRUE, 0, 0, None, None, None, None, None, <<>>, None,
              None, "", 0)

\* a narrative variable before its call has returned a list
NoList == <<>>

\* the list a call returned, NoList when it raised
ListOf(call) == IF call.raised = "" THEN call.value ELSE NoList

\* no request is being made: the position in _make_request, the configured
\* key, the HTTP attempts made so far (one per active frame), the last
\* answer, the value returned and the exception that left the call
IdleRequest ==
    [pc |-> "idle", api_key |-> "", attempts |-> 0, status |-> "",
     result |-> "", raised |-> ""]

AnalysisIdle ==
    /\ now = 0
    /\ signals = None
    /\ buy_case = NoList
    /\ risk_factors = NoList
    /\ target_upside_pct = None
    /\ raised = ""

ReportIdle ==
    /\ aggregated = <<>>
    /\ market = <<>>
    /\ max_stocks = MAX_STOCKS_WEB
    /\ pc = "idle"
    /\ qualifying_tickers = <<>>
    /\ stock_data_map = <<>>
    /\ analyzed_stocks = <<>>
    /\ dark_horses = <<>>
    /\ main_picks = <<>>
    /\ final_picks = <<>>
    /\ report_stocks = <<>>
    /\ db = <<>>

InitScore ==
    /\ \E pct \in PctDomain, price \in PriceDomain, rsi \in RsiDomain,
          pe \in PeDomain, peg \in PegDomain, raw \in RawDebtDomain,
          fcf \in FcfDomain, insider \in InsiderDomain,
          target \in TargetDomain :
            stock = StockData(1, TRUE, pct, price, rsi, pe, peg,
                              FetchDebtToEquity(raw), fcf, insider, target,
                              None, "", 0)
    /\ reddit_mentions \in MentionDomain
    /\ sentiment \in SentimentDomain
    /\ score = None
    /\ last_op = "new"
    /\ ReportIdle
    /\ AnalysisIdle
    /\ sector_category = ""
    /\ sessions = <<>>
    /\ request = IdleRequest

\* score = self._calculate_score(stock_data, mentions, sentiment)
CalculateScore ==
    /\ score = None
    /\ score' = ScoreCall(stock, reddit_mentions, sentiment).value
    /\ raised' = ScoreError(stock)
    /\ last_op' = "score"
    /\ UNCHANGED <<stock, reddit_mentions, sentiment>>
    /\ UNCHANGED reportVars
    /\ UNCHANGED <<sector_category, sessions, request>>
    /\ UNCHANGED <<now, signals, buy_case, risk_factors, target_upside_pct>>

\* the same snapshot with one field absent, scored again
RemoveField(f) ==
    /\ score # None
    /\ stock[f] # AbsentValue(f)
    /\ stock' = [stock EXCEPT ![f] = AbsentValue(f)]
    /\ score' = ScoreCall(stock', reddit_mentions, sentiment).value
    /\ raised' = ScoreError(stock')
    /\ last_op' = "remove"
    /\ UNCHANGED <<reddit_mentions, sentiment>>
    /\ UNCHANGED reportVars
    /\ UNCHANGED <<sector_category, sessions, request>>
    /\ UNCHANGED <<now, signals, buy_case, risk_factors, target_upside_pct>>

\* the same snapshot with another debtToEquity from the provider, scored again
ChangeDebt(raw) ==
    /\ score # None
    /\ FetchDebtToEquity(raw) # stock.debt_to_equity
    /\ stock' = [stock EXCEPT !.debt_to_equity = FetchDebtToEquity(raw)]
    /\ score' = ScoreCall(stock', reddit_mentions, sentiment).value
    /\ raised' = ScoreError(stock')
    /\ last_op' = "debt"
    /\ UNCHANGED <<reddit_mentions, sentiment>>
    /\ UNCHANGED reportVars
    /\ UNCHANGED <<sector_category, sessions, request>>
    /\ UNCHANGED <<now, signals, buy_case, risk_factors, target_upside_pct>>

RemoveAnyField == \E f \in ScoredFields : RemoveField(f)

ChangeAnyDebt == \E raw \in RawDebtDomain : ChangeDebt(raw)

NextScore == CalculateScore \/ RemoveAnyField \/ ChangeAnyDebt

SpecScore == InitScore /\ [][NextScore]_vars

(***************************************************************************)
(* Python list helpers                                                     *)
(***************************************************************************)
\* s[:k]
Take(s, k) == SubSeq(s, 1, Min(k, Len(s)))

\* tuple comparison a > b (same length), as Python compares sort keys
LexGreater(a, b) ==
    \E k \in 1..Len(a) :
        /\ a[k] > b[k]
        /\ \A j \in 1..(k - 1) : a[j] = b[j]

\* list.sort(key=..., reverse=True), keys[i] being the key of s[i]: descending
\* by key, and stable (elements with equal keys keep their original relative
\* order).  The n-th element is placed among the first n - 1, already sorted,
\* after every element whose key is not smaller.
InsertedDescending(order, keys, n) ==
    SelectSeq(order, LAMBDA j : ~LexGreater(keys[n], keys[j]))
        \o <<n>>
        \o SelectSeq(order, LAMBDA j : LexGreater(keys[n], keys[j]))

RECURSIVE OrderDescending(_, _)
OrderDescending(keys, n) ==
    IF n = 0 THEN <<>>
    ELSE InsertedDescending(OrderDescending(keys, n - 1), keys, n)

Placed(s, order) == [p \in 1..Len(s) |-> s[order[p]]]

SortedDescending(s, keys) == Placed(s, OrderDescending(keys, Len(s)))

Reverse(s) == [k \in 1..Len(s) |-> s[Len(s) + 1 - k]]

(***************************************************************************)
(* Python attribute access, arithmetic and string formatting               *)
(***************************************************************************)
\* whether obj.f exists: a dataclass instance has the attributes the class
\* declares and no other
HasAttr(s, f) == f \in DOMAIN s

\* the first exception of a sequence of evaluation steps, "" when none raises
FirstError(errors) ==
    LET bad == SelectSeq(errors, LAMBDA e : e # "")
    IN  IF bad = <<>> THEN "" ELSE Head(bad)

Abs(x) == IF x < 0 THEN -x ELSE x

\* f"{x:.0f}", f"{x:.1f}", f"{x:.2f}" of a number held in hundredths: the
\* number shown, in units, tenths and hundredths
Fmt0(x) == RoundDiv(x, 100)

Fmt1(x) == RoundDiv(x, 10)

Fmt2(x) == x

(***************************************************************************)
(* ReportGenerator._count_signals: the bucket of each of the eight         *)
(* metrics, "" when the metric is counted nowhere                          *)
(***************************************************************************)
RecentSells(s) == SelectSeq(s.insider_activity, LAMBDA a : a.type = "sell")

\* the metrics in the order _count_signals reads them
SignalMetrics ==
    <<"rsi", "pe_ratio", "peg_ratio", "debt_to_equity", "free_cash_flow",
      "short_interest", "insider_activity", "one_year_return">>

\* values are in hundredths
SignalOf(s, metric) ==
    CASE metric = "rsi" ->                                   \* 208-214
           IF Truthy(s.rsi)
           THEN IF s.rsi < 3000 THEN "bullish"
                ELSE IF s.rsi > 7000 THEN "bearish" ELSE "neutral"
           ELSE ""
      [] metric = "pe_ratio" ->                              \* 217-223
           IF Truthy(s.pe_ratio)
           THEN IF s.pe_ratio < 1500 THEN "bullish"
                ELSE IF s.pe_ratio > 3000 THEN "bearish" ELSE "neutral"
           ELSE ""
      [] metric = "peg_ratio" ->                             \* 226-232
           IF Truthy(s.peg_ratio)
           THEN IF s.peg_ratio < 100 THEN "bullish"
                ELSE IF s.peg_ratio > 200 THEN "bearish" ELSE "neutral"
           ELSE ""
      [] metric = "debt_to_equity" ->                        \* 235-241
           IF Truthy(s.debt_to_equity)
           THEN IF s.debt_to_equity < 50 THEN "bullish"
                ELSE IF s.debt_to_equity > 150 THEN "bearish" ELSE "neutral"
           ELSE ""
      [] metric = "free_cash_flow" ->                        \* 244-248
           IF Truthy(s.free_cash_flow)
           THEN IF s.free_cash_flow > 0 THEN "bullish" ELSE "bearish"
           ELSE ""
      [] metric = "short_interest" ->                        \* 251-257
           IF Truthy(s.short_interest)
           THEN IF s.short_interest > 2000 THEN "bearish"
                ELSE IF s.short_interest < 500 THEN "bullish" ELSE "neutral"
           ELSE ""
      [] metric = "insider_activity" ->                      \* 260-265
           IF Len(RecentBuys(s)) > Len(RecentSells(s)) THEN "bullish"
           ELSE IF Len(RecentSells(s)) > Len(RecentBuys(s)) THEN "bearish"
           ELSE ""
      [] OTHER ->                                            \* 268-272
           IF Truthy(s.one_year_return)
           THEN IF s.one_year_return < -3000 THEN "neutral"
                ELSE IF s.one_year_return > 2000 THEN "bullish" ELSE ""
           ELSE ""

SignalCount(s, bucket) ==
    Cardinality({i \in 1..Len(SignalMetrics) :
                    SignalOf(s, SignalMetrics[i]) = bucket})

\* return bullish, bearish, neutral
_count_signals(s) ==
    [bullish |-> SignalCount(s, "bullish"),
     bearish |-> SignalCount(s, "bearish"),
     neutral |-> SignalCount(s, "neutral")]

(***************************************************************************)
(* Ratios of the narrative rules.  Each ratio has the test under which the *)
(* code evaluates it, and the value shown in the text.                     *)
(***************************************************************************)
\* lines 343 and 466: target and price present and price > 0
UpsideNarrativeGuard(s) ==
    /\ Truthy(s.target_price_mean)
    /\ Truthy(s.current_price)
    /\ s.current_price > 0

\* upside > k, for price > 0
UpsideAbove(s, k) ==
    (s.target_price_mean - s.current_price) * 100 > k * s.current_price

\* upside < k, for price > 0
UpsideBelow(s, k) ==
    (s.target_price_mean - s.current_price) * 100 < k * s.current_price

\* f"{upside:.0f}", in percent
UpsideShown(s) ==
    RoundDiv((s.target_price_mean - s.current_price) * 100, s.current_price)

\* line 309: 52-week low and price present and low > 0
LowGuard(s) ==
    /\ Truthy(s.fifty_two_week_low)
    /\ Truthy(s.current_price)
    /\ s.fifty_two_week_low > 0

\* lines 315-316: positive free cash flow and positive market cap
FcfYieldGuard(s) ==
    /\ Truthy(s.free_cash_flow)
    /\ s.free_cash_flow > 0
    /\ Truthy(s.market_cap)
    /\ s.market_cap > 0

\* lines 287-288: both P/E present and forward_pe < pe_ratio * 0.8
ForwardPeGuard(s) ==
    /\ Truthy(s.pe_ratio)
    /\ Truthy(s.forward_pe)
    /\ s.forward_pe * 10 < s.pe_ratio * 8

\* total_value = sum(a.get("value", 0) for a in transactions)
RECURSIVE TotalValue(_)
TotalValue(transactions) ==
    IF transactions = <<>> THEN 0
    ELSE Head(transactions).value + TotalValue(Tail(transactions))

(***************************************************************************)
(* ReportGenerator._generate_buy_case.  A candidate is (weight, text); a   *)
(* text is the name of its template followed by the numbers it shows.      *)
(***************************************************************************)
Candidate(w, text) == [weight |-> w, text |-> text]

\* 343-350
AnalystUpsidePoint(s) ==
    IF UpsideNarrativeGuard(s)
    THEN IF /\ UpsideAbove(s, 40)
            /\ Truthy(s.analyst_count)
            /\ s.analyst_count >= 10
         THEN <<Candidate(80, <<"analyst_consensus", s.analyst_count,
                                UpsideShown(s), Fmt0(s.target_price_mean)>>)>>
         ELSE IF /\ UpsideAbove(s, 20)
                 /\ Truthy(s.analyst_count)
                 /\ s.analyst_count >= 5
         THEN <<Candidate(60, <<"analysts_project", UpsideShown(s),
                                Fmt0(s.target_price_mean), s.analyst_count>>)>>
         ELSE IF UpsideAbove(s, 20)
         THEN <<Candidate(45, <<"analyst_target",
                                Fmt0(s.target_price_mean), UpsideShown(s)>>)>>
         ELSE <<>>
    ELSE <<>>

\* the candidates appended before line 357, in rule-table order
PointsBeforeTurnaround(s) ==
    LET
        \* 283-285
        PegPoint ==
            IF Truthy(s.peg_ratio) /\ s.peg_ratio < 100
            THEN <<Candidate(IF s.peg_ratio < 50 THEN 90 ELSE 75,
                             <<"peg", Fmt2(s.peg_ratio)>>)>>
            ELSE <<>>
        \* 287-290
        ForwardPePoint ==
            IF ForwardPeGuard(s)
            THEN <<Candidate(70, <<"forward_pe", Fmt1(s.forward_pe),
                                   RoundDiv((s.pe_ratio - s.forward_pe)
                                               * 100,
                                            s.pe_ratio),
                                   Fmt1(s.pe_ratio)>>)>>
            ELSE <<>>
        \* 292-293
        LowPePoint ==
            IF Truthy(s.pe_ratio) /\ s.pe_ratio < 1200
            THEN <<Candidate(65, <<"trailing_pe", Fmt1(s.pe_ratio)>>)>>
            ELSE <<>>
        \* 295-296
        PriceToBookPoint ==
            IF Truthy(s.pb_ratio) /\ s.pb_ratio < 100
            THEN <<Candidate(60, <<"price_to_book", Fmt2(s.pb_ratio)>>)>>
            ELSE <<>>
        \* 299-302
        DiscountPoint ==
            IF Truthy(s.pct_from_ath) /\ s.pct_from_ath >= 3000
            THEN <<Candidate(80, <<"deep_discount", Fmt0(s.pct_from_ath)>>)>>
            ELSE IF Truthy(s.pct_from_ath) /\ s.pct_from_ath >= 2000
            THEN <<Candidate(60, <<"discount", Fmt0(s.pct_from_ath)>>)>>
            ELSE <<>>
        \* 304-307
        OversoldPoint ==
            IF Truthy(s.rsi) /\ s.rsi < 2500
            THEN <<Candidate(85, <<"rsi_deeply_oversold", Fmt0(s.rsi)>>)>>
            ELSE IF Truthy(s.rsi) /\ s.rsi < 3000
            THEN <<Candidate(65, <<"rsi_oversold", Fmt0(s.rsi)>>)>>
            ELSE <<>>
        \* 309-312
        NearLowPoint ==
            IF /\ LowGuard(s)
               /\ (s.current_price - s.fifty_two_week_low) * 100
                    < 10 * s.fifty_two_week_low
            THEN <<Candidate(55, <<"near_52_week_low",
                           RoundDiv((s.current_price - s.fifty_two_week_low)
                                       * 100,
                                    s.fifty_two_week_low),
                                   Fmt2(s.fifty_two_week_low)>>)>>
            ELSE <<>>
        \* 315-323
        FreeCashFlowPoint ==
            IF Truthy(s.free_cash_flow) /\ s.free_cash_flow > 0
            THEN IF FcfYieldGuard(s)
                 THEN IF s.free_cash_flow * 100 > 5 * s.market_cap
                      THEN <<Candidate(80, <<"fcf_yield",
                                     RoundDiv(s.free_cash_flow * 1000,
                                              s.market_cap),
                                             Fmt1(s.free_cash_flow),
                                             Fmt0(s.market_cap)>>)>>
                      ELSE <<Candidate(55, <<"fcf_profitability",
                                             Fmt1(s.free_cash_flow)>>)>>
                 ELSE <<Candidate(55, <<"fcf", Fmt1(s.free_cash_flow)>>)>>
            ELSE <<>>
        \* 325-326
        ProfitMarginPoint ==
            IF Truthy(s.profit_margin) /\ s.profit_margin > 2000
            THEN <<Candidate(50, <<"profit_margin", Fmt0(s.profit_margin)>>)>>
            ELSE <<>>
        \* 328-331
        LowDebtPoint ==
            IF s.debt_to_equity # None /\ s.debt_to_equity < 30
            THEN <<Candidate(55, <<"very_low_debt", Fmt2(s.debt_to_equity)>>)>>
            ELSE IF /\ s.debt_to_equity # None
                    /\ 0 < s.debt_to_equity
                    /\ s.debt_to_equity < 50
            THEN <<Candidate(40, <<"manageable_debt", Fmt2(s.debt_to_equity)>>)>>
            ELSE <<>>
        \* 334-340; the value shown is in dollars
        InsiderBuyingPoint ==
            IF RecentBuys(s) # <<>>
            THEN IF TotalValue(RecentBuys(s)) > 1000000
                 THEN <<Candidate(85, <<"insiders_bought",
                                        TotalValue(RecentBuys(s))>>)>>
                 ELSE IF TotalValue(RecentBuys(s)) > 0
                 THEN <<Candidate(65, <<"insider_buying",
                                        TotalValue(RecentBuys(s))>>)>>
                 ELSE <<>>
            ELSE <<>>
        \* 353-354
        DividendPoint ==
            IF Truthy(s.dividend_yield) /\ s.dividend_yield > 300
            THEN <<Candidate(50, <<"dividend_yield", Fmt1(s.dividend_yield)>>)>>
            ELSE <<>>
    IN  PegPoint \o ForwardPePoint \o LowPePoint \o PriceToBookPoint
        \o DiscountPoint \o OversoldPoint \o NearLowPoint
        \o FreeCashFlowPoint \o ProfitMarginPoint \o LowDebtPoint
        \o InsiderBuyingPoint \o AnalystUpsidePoint(s) \o DividendPoint

\* weighted_points when line 367 is reached
WeightedPoints(s, sent) ==
    LET
        \* 357-359; reached only by an object that has a three_month_return
        TurnaroundPoint ==
            IF /\ Truthy(s.three_month_return)
               /\ Truthy(s.one_year_return)
               /\ s.three_month_return > 1000
               /\ s.one_year_return < -1000
            THEN <<Candidate(60, <<"turnaround", Fmt0(s.three_month_return),
                                   Fmt0(Abs(s.one_year_return))>>)>>
            ELSE <<>>
        \* 362-365
        SentimentPoint ==
            IF sent > 40
            THEN <<Candidate(40, <<"reddit_strongly_bullish", Fmt2(sent)>>)>>
            ELSE IF sent > 30 THEN <<Candidate(30, <<"reddit_positive">>)>>
            ELSE <<>>
    IN  PointsBeforeTurnaround(s) \o TurnaroundPoint \o SentimentPoint

WeightKeys(candidates) ==
    [i \in 1..Len(candidates) |-> <<candidates[i].weight>>]

Texts(candidates) == [i \in 1..Len(candidates) |-> candidates[i].text]

BUY_CASE_POINTS == 4

\* candidates.sort(key=lambda x: x[0], reverse=True); candidates[:k]
TopByWeight(candidates, k) ==
    Take(SortedDescending(candidates, WeightKeys(candidates)), k)

\* 371-383: the sentence built from identity fields when no rule fired
BuyCaseFallback(s) ==
    LET parts ==
            (IF s.industry # "" /\ s.industry # "Unknown"
             THEN <<<<"operates_in", s.name, s.industry>>>>
             ELSE IF s.sector # "" /\ s.sector # "Unknown"
             THEN <<<<"operates_in_sector", s.name, s.sector>>>>
             ELSE <<>>)
            \o (IF Truthy(s.market_cap)
                THEN <<<<"market_cap", Fmt0(s.market_cap)>>>> ELSE <<>>)
            \o (IF Truthy(s.pct_from_ath)
                THEN <<<<"off_highs", Fmt0(s.pct_from_ath)>>>> ELSE <<>>)
    IN  IF parts # <<>>
        THEN <<"worth_monitoring", parts>>
        ELSE <<"limited_data_signals", s.name>>

IsBuyCaseFallback(text) ==
    text[1] \in {"worth_monitoring", "limited_data_signals"}

\* the exceptions of the divisions and of the attribute read, in the order
\* the statements run
BuyCaseError(s) ==
    FirstError(<<IF ForwardPeGuard(s) THEN DivisionError(s.pe_ratio) ELSE "",
                 IF LowGuard(s)
                    THEN DivisionError(s.fifty_two_week_low) ELSE "",
                 IF FcfYieldGuard(s) THEN DivisionError(s.market_cap) ELSE "",
                 IF UpsideNarrativeGuard(s)
                    THEN DivisionError(s.current_price) ELSE "",
                 IF HasAttr(s, "three_month_return")
                    THEN "" ELSE "AttributeError">>)

\* the list `points` of line 385; the string returned is its texts joined by
\* " " and followed by "."
_generate_buy_case(s, mentions, sent) ==
    IF BuyCaseError(s) # "" THEN Raise(BuyCaseError(s))
    ELSE LET points ==
                 Texts(TopByWeight(WeightedPoints(s, sent), BUY_CASE_POINTS))
         IN  Return(IF points = <<>> THEN <<BuyCaseFallback(s)>> ELSE points)

(***************************************************************************)
(* ReportGenerator._generate_risk_factors.  Times are in hours.            *)
(***************************************************************************)
HoursPerDay == 24

\* (stock.next_earnings_date - datetime.now()).days: whole days, rounded down
DaysUntil(date, clock) == (date - clock) \div HoursPerDay

\* 466-469
DownsideRisk(s) ==
    IF UpsideNarrativeGuard(s) /\ UpsideBelow(s, -10)
    THEN <<Candidate(80, <<"target_implies_downside",
                           Fmt0(s.target_price_mean), Abs(UpsideShown(s)),
                           Fmt2(s.current_price)>>)>>
    ELSE <<>>

\* weighted_risks when line 487 is reached, in rule-table order
WeightedRisks(s, clock) ==
    LET
        \* 394-399; a datetime is always true, None is false
        EarningsRisk ==
            IF s.next_earnings_date # None
            THEN LET days_until == DaysUntil(s.next_earnings_date, clock)
                 IN  IF 0 < days_until /\ days_until <= 7
                     THEN <<Candidate(95, <<"earnings_in", days_until>>)>>
                     ELSE IF 7 < days_until /\ days_until <= 14
                     THEN <<Candidate(70, <<"earnings_report_in", days_until>>)>>
                     ELSE <<>>
            ELSE <<>>
        \* 402-407
        DebtRisk ==
            IF Truthy(s.debt_to_equity) /\ s.debt_to_equity > 300
            THEN <<Candidate(90, <<"dangerous_debt", Fmt1(s.debt_to_equity)>>)>>
            ELSE IF Truthy(s.debt_to_equity) /\ s.debt_to_equity > 200
            THEN <<Candidate(75, <<"heavy_debt", Fmt1(s.debt_to_equity)>>)>>
            ELSE IF Truthy(s.debt_to_equity) /\ s.debt_to_equity > 150
            THEN <<Candidate(55, <<"above_average_debt", Fmt1(s.debt_to_equity)>>)>>
            ELSE <<>>
        \* 410-413
        CashBurnRisk ==
            IF Truthy(s.free_cash_flow) /\ s.free_cash_flow < -100
            THEN <<Candidate(90, <<"burning_cash", Fmt1(Abs(s.free_cash_flow))>>)>>
            ELSE IF Truthy(s.free_cash_flow) /\ s.free_cash_flow < 0
            THEN <<Candidate(70, <<"negative_fcf", Fmt1(s.free_cash_flow)>>)>>
            ELSE <<>>
        \* 416-419
        MarginRisk ==
            IF s.profit_margin # None /\ s.profit_margin < -1000
            THEN <<Candidate(80, <<"loses_money", Fmt0(s.profit_margin), s.ticker>>)>>
            ELSE IF s.profit_margin # None /\ s.profit_margin < 0
            THEN <<Candidate(60, <<"operating_at_loss", Fmt1(s.profit_margin)>>)>>
            ELSE <<>>
        \* 422-430; line 422 reads three_month_return when one_year_return is true
        DeclineRisk ==
            IF Truthy(s.one_year_return) /\ Truthy(s.three_month_return)
            THEN IF s.one_year_return < -5000 /\ s.three_month_return < -2000
                 THEN <<Candidate(90, <<"downtrend_accelerating",
                                        Fmt0(Abs(s.one_year_return)),
                                        Fmt0(s.three_month_return)>>)>>
                 ELSE IF s.one_year_return < -4000
                 THEN <<Candidate(75, <<"steep_decline",
                                        Fmt0(Abs(s.one_year_return))>>)>>
                 ELSE IF s.one_year_return < -2500 /\ s.three_month_return < 0
                 THEN <<Candidate(65, <<"no_recovery", Fmt0(Abs(s.one_year_return)),
                                        Fmt0(s.three_month_return)>>)>>
                 ELSE <<>>
            ELSE IF Truthy(s.one_year_return) /\ s.one_year_return < -4000
            THEN <<Candidate(70, <<"value_destruction",
                                   Fmt0(Abs(s.one_year_return))>>)>>
            ELSE <<>>
        \* 433-438
        ShortInterestRisk ==
            IF Truthy(s.short_interest) /\ s.short_interest > 2500
            THEN <<Candidate(85, <<"extreme_short_interest", Fmt0(s.short_interest),
                                   s.ticker>>)>>
            ELSE IF Truthy(s.short_interest) /\ s.short_interest > 1500
            THEN <<Candidate(65, <<"short_interest", Fmt1(s.short_interest)>>)>>
            ELSE IF Truthy(s.short_interest) /\ s.short_interest > 1000
            THEN <<Candidate(45, <<"moderate_short_interest",
                                   Fmt1(s.short_interest)>>)>>
            ELSE <<>>
        \* 441-444
        ValuationRisk ==
            IF Truthy(s.pe_ratio) /\ s.pe_ratio > 5000
            THEN <<Candidate(70, <<"exceptional_growth_needed", Fmt0(s.pe_ratio)>>)>>
            ELSE IF Truthy(s.pe_ratio) /\ s.pe_ratio > 3500
            THEN <<Candidate(50, <<"growth_priced_in", Fmt0(s.pe_ratio)>>)>>
            ELSE <<>>
        \* 447-450
        VolatilityRisk ==
            IF Truthy(s.beta) /\ s.beta > 200
            THEN <<Candidate(65, <<"beta", Fmt1(s.beta), Fmt0(s.beta * 5),
                                   s.ticker>>)>>
            ELSE IF Truthy(s.beta) /\ s.beta > 150
            THEN <<Candidate(45, <<"elevated_volatility", Fmt1(s.beta)>>)>>
            ELSE <<>>
        \* 453-456
        SizeRisk ==
            IF s.market_cap_category = "micro" /\ Truthy(s.market_cap)
            THEN <<Candidate(70, <<"micro_cap", Fmt1(s.market_cap)>>)>>
            ELSE IF s.market_cap_category = "small" /\ Truthy(s.market_cap)
            THEN <<Candidate(50, <<"small_cap", Fmt1(s.market_cap)>>)>>
            ELSE <<>>
        \* str.lower() on the ratings "", "buy" and "Sell"
        Lower(text) == IF text = "Sell" THEN "sell" ELSE text
        \* 459-463
        AnalystRisk ==
            IF /\ s.analyst_rating # ""
               /\ Lower(s.analyst_rating) \in {"sell", "strong sell", "underperform"}
            THEN <<Candidate(75, <<"analyst_consensus_negative", s.analyst_rating,
                                   s.analyst_count>>)>>
            ELSE IF /\ Truthy(s.analyst_count)
                    /\ s.analyst_count < 3
                    /\ Truthy(s.market_cap)
                    /\ s.market_cap < 500
            THEN <<Candidate(50, <<"low_coverage", s.analyst_count, s.ticker>>)>>
            ELSE <<>>
        \* 472-477; the value shown is in dollars
        InsiderSellingRisk ==
            IF /\ RecentSells(s) # <<>>
               /\ Len(RecentSells(s)) > Len(RecentBuys(s)) + 1
               /\ TotalValue(RecentSells(s)) > 1000000
            THEN <<Candidate(70, <<"insiders_net_selling",
                                   TotalValue(RecentSells(s))>>)>>
            ELSE <<>>
        \* 480-481
        OverboughtRisk ==
            IF Truthy(s.rsi) /\ s.rsi > 7500
            THEN <<Candidate(55, <<"rsi_overbought", Fmt0(s.rsi)>>)>>
            ELSE <<>>
        \* 484-485
        CrowdingRisk ==
            IF /\ Truthy(s.institutional_ownership)
               /\ s.institutional_ownership > 9500
            THEN <<Candidate(45, <<"institutional_crowding",
                                   Fmt0(s.institutional_ownership)>>)>>
            ELSE <<>>
    IN  EarningsRisk \o DebtRisk \o CashBurnRisk \o MarginRisk
        \o DeclineRisk \o ShortInterestRisk \o ValuationRisk
        \o VolatilityRisk \o SizeRisk \o AnalystRisk \o DownsideRisk(s)
        \o InsiderSellingRisk \o OverboughtRisk \o CrowdingRisk

RISK_FACTOR_COUNT == 5

\* 492-501: the sentence built when no rule fired
RiskFallback(s) ==
    LET metrics ==
            (IF Truthy(s.pe_ratio)
             THEN <<<<"pe", Fmt1(s.pe_ratio)>>>> ELSE <<>>)
            \o (IF s.debt_to_equity # None
                THEN <<<<"de", Fmt1(s.debt_to_equity)>>>> ELSE <<>>)
            \o (IF Truthy(s.beta) THEN <<<<"beta", Fmt1(s.beta)>>>> ELSE <<>>)
    IN  <<"no_major_red_flags", s.name,
          IF metrics # <<>> THEN metrics ELSE <<"limited data">>>>

IsRiskFallback(text) == text[1] = "no_major_red_flags"

\* the exceptions of the attribute read and of the division, in the order
\* the statements run
RiskFactorsError(s) ==
    FirstError(<<IF Truthy(s.one_year_return)
                    /\ ~HasAttr(s, "three_month_return")
                    THEN "AttributeError" ELSE "",
                 IF UpsideNarrativeGuard(s)
                    THEN DivisionError(s.current_price) ELSE "">>)

\* the list returned at line 503
_generate_risk_factors(s, clock) ==
    IF RiskFactorsError(s) # "" THEN Raise(RiskFactorsError(s))
    ELSE LET risks ==
                 Texts(TopByWeight(WeightedRisks(s, clock), RISK_FACTOR_COUNT))
         IN  Return(IF risks = <<>> THEN <<RiskFallback(s)>> ELSE risks)

(***************************************************************************)
(* generate_report, step 8: the target upside stored with a pick           *)
(***************************************************************************)
\* 753-758: round(((target - price) / price) * 100, 2), for price > 0
TargetUpside(s) ==
    IF UpsideGuard(s)
    THEN RoundDiv((s.target_price_mean - s.current_price) * 10000,
                  s.current_price)
    ELSE None

(***************************************************************************)
(* Analysis harness: a snapshot as fetch_stock builds it, handed to each   *)
(* per-stock call of the loop body.  A case is one of four base snapshots  *)
(* with up to MaxOverrides fields (or the mention count, the sentiment,    *)
(* the clock) replaced by another value of the field's domain.             *)
(***************************************************************************)
\* StockFetcher._get_market_cap_category, market cap in hundredths of $1B
_get_market_cap_category(market_cap) ==
    IF market_cap >= 20000 THEN "mega"
    ELSE IF market_cap >= 1000 THEN "large"
    ELSE IF market_cap >= 200 THEN "mid"
    ELSE IF market_cap >= 30 THEN "small"
    ELSE "micro"

\* the fields of StockData the narrative rules read besides those above, as
\* fetch_stock leaves them when the provider has nothing for them.  The
\* dataclass declares no three_month_return.
BareFields ==
    [name |-> "ACME", sector |-> "Unknown", industry |-> "Unknown",
     market_cap |-> 0, fifty_two_week_low |-> 0, forward_pe |-> None,
     pb_ratio |-> None, profit_margin |-> None, dividend_yield |-> None,
     beta |-> None, one_year_return |-> None, short_interest |-> None,
     analyst_rating |-> "", next_earnings_date |-> None]

\* what is handed to the calls besides the snapshot
CallArguments(mentions, sent, clock) ==
    [reddit_mentions |-> mentions, sentiment |-> sent, now |-> clock]

BaseCases ==
    LET
        \* a priced ticker with nothing else
        BareCase ==
            StockData(1, TRUE, 0, 10000, None, None, None, None, None, <<>>, None,
                      None, "micro", 0)
                @@ BareFields @@ CallArguments(50, 0, 0)
        \* pct_from_ath 40, rsi 25, peg 0.6, D/E 0.2, FCF 2.0, 50 mentions,
        \* sentiment 0.4, every other field absent
        ScenarioOneCase ==
            StockData(1, TRUE, 4000, 10000, 2500, None, 60, 20, 200, <<>>, None,
                      None, "micro", 0)
                @@ BareFields @@ CallArguments(50, 40, 0)
        \* a cheap, cash-generating company: most buy-case rules fire
        ValueCase ==
            StockData(1, TRUE, 4500, 10000, 2000, 1000, 40, 20, 200,
                      <<Transaction("buy", 2000000)>>, 15000, 7000, "large", 12)
                @@ [BareFields EXCEPT
                       !.industry = "Software", !.sector = "Technology",
                       !.market_cap = 3000, !.fifty_two_week_low = 9500,
                       !.forward_pe = 700, !.pb_ratio = 80, !.profit_margin = 2500,
                       !.dividend_yield = 400]
                @@ CallArguments(50, 45, 0)
        \* an indebted, cash-burning micro-cap three days before earnings: most risk
        \* rules fire
        DistressCase ==
            StockData(1, TRUE, 6000, 10000, 8000, 6000, None, 350, -150,
                      <<Transaction("sell", 600000), Transaction("sell", 600000),
                        Transaction("sell", 600000)>>,
                      8000, 9600, "micro", 12)
                @@ [BareFields EXCEPT
                       !.market_cap = 20, !.profit_margin = -1500,
                       !.short_interest = 3000, !.beta = 250,
                       !.analyst_rating = "Sell", !.next_earnings_date = 72]
                @@ CallArguments(50, 0, 0)
    IN  {BareCase, ScenarioOneCase, ValueCase, DistressCase}

\* the values each field is replaced by
FieldValues ==
    [pct_from_ath |-> {0, 1499, 1500, 2500, 4000, 5000, 5001},
     current_price |-> {0, 10000},
     rsi |-> {None, 2000, 2800, 5000, 8000},
     pe_ratio |-> {None, 1000, 2000, 4000, 6000},
     forward_pe |-> {None, 700},
     pb_ratio |-> {None, 80},
     peg_ratio |-> {None, 40, 60, 150, 250},
     debt_to_equity |-> {None, 0, 20, 40, 100, 160, 250, 350},
     free_cash_flow |-> {None, 200, -50, -150},
     market_cap |-> {0, 20, 100, 3000},
     fifty_two_week_low |-> {0, 5000, 9500},
     profit_margin |-> {None, 2500, -500, -1500},
     dividend_yield |-> {None, 400},
     beta |-> {None, 160, 250},
     one_year_return |-> {None, 500, 2500, -3500, -4500},
     short_interest |-> {None, 300, 1200, 1800, 3000},
     institutional_ownership |-> {None, 3000, 9600},
     analyst_rating |-> {"", "buy", "Sell"},
     analyst_count |-> {0, 2, 6, 12},
     target_price_mean |-> {None, 8000, 12500, 15000},
     insider_activity |->
        {<<>>,
         <<Transaction("buy", 2000000)>>,
         <<Transaction("buy", 50000)>>,
         <<Transaction("buy", 50000), Transaction("sell", 50000)>>,
         <<Transaction("sell", 600000), Transaction("sell", 600000),
           Transaction("sell", 600000)>>},
     next_earnings_date |-> {None, -10, 5, 72, 173, 200, 240, 400},
     industry |-> {"Unknown", "Software"},
     sector |-> {"Unknown", "Technology"},
     reddit_mentions |-> {5, 50, 150},
     sentiment |-> {-20, 0, 35, 45},
     now |-> {0, 48}]

MaxOverrides == 1

\* the case with one field replaced; the market-cap category follows the
\* market cap as in fetch_stock
Override(c, f, v) ==
    LET d == [c EXCEPT ![f] = v]
    IN  IF f = "market_cap"
        THEN [d EXCEPT !.market_cap_category = _get_market_cap_category(v)]
        ELSE d

RECURSIVE CasesWithin(_)
CasesWithin(k) ==
    IF k = 0 THEN BaseCases
    ELSE LET previous == CasesWithin(k - 1)
         IN  previous \cup
             UNION {UNION {{Override(c, f, v) : v \in FieldValues[f]} :
                              f \in DOMAIN FieldValues} : c \in previous}

\* the snapshot of a case
StockOf(c) == [f \in DOMAIN c \ DOMAIN CallArguments(0, 0, 0) |-> c[f]]

InitAnalysis ==
    /\ \E c \in CasesWithin(MaxOverrides) :
        /\ stock = StockOf(c)
        /\ reddit_mentions = c.reddit_mentions
        /\ sentiment = c.sentiment
        /\ now = c.now
    /\ score = None
    /\ last_op = "new"
    /\ signals = None
    /\ buy_case = NoList
    /\ risk_factors = NoList
    /\ target_upside_pct = None
    /\ raised = ""
    /\ ReportIdle
    /\ sector_category = ""
    /\ sessions = <<>>
    /\ request = IdleRequest

\* bullish, bearish, neutral = self._count_signals(stock_data)
CountSignals ==
    /\ last_op = "new"
    /\ signals' = _count_signals(stock)
    /\ raised' = ""
    /\ last_op' = "signals"
    /\ UNCHANGED <<stock, reddit_mentions, sentiment, score, now, buy_case,
                   risk_factors, target_upside_pct>>
    /\ UNCHANGED reportVars
    /\ UNCHANGED <<sector_category, sessions, request>>

\* buy_case = self._generate_buy_case(stock_data, mentions, sentiment)
GenerateBuyCase ==
    /\ last_op = "new"
    /\ LET call == _generate_buy_case(stock, reddit_mentions, sentiment)
       IN  /\ buy_case' = ListOf(call)
           /\ raised' = call.raised
    /\ last_op' = "buy_case"
    /\ UNCHANGED <<stock, reddit_mentions, sentiment, score, now, signals,
                   risk_factors, target_upside_pct>>
    /\ UNCHANGED reportVars
    /\ UNCHANGED <<sector_category, sessions, request>>

SharedList(previous, built) == previous \o built

\* weighted_risks = [] (line 391): the list is built anew by every call
LocalList(previous, built) == built

\* risk_factors = self._generate_risk_factors(stock_data)
GenerateRiskFactors ==
    /\ last_op = "new"
    /\ LET call == _generate_risk_factors(stock, now)
       IN  /\ risk_factors' = LocalList(risk_factors, ListOf(call))
           /\ raised' = call.raised
    /\ last_op' = "risks"
    /\ UNCHANGED <<stock, reddit_mentions, sentiment, score, now, signals,
                   buy_case, target_upside_pct>>
    /\ UNCHANGED reportVars
    /\ UNCHANGED <<sector_category, sessions, request>>

\* the call of the first run made again in a second run over the same
\* snapshot and mention data, when the clock reads `clock`
SecondRun(clock) ==
    /\ last_op \in {"score", "signals", "buy_case", "risks"}
    /\ now' = clock
    /\ LET scored == ScoreCall(stock, reddit_mentions, sentiment)
           case == _generate_buy_case(stock, reddit_mentions, sentiment)
           risks == _generate_risk_factors(stock, clock)
       IN  /\ score' = IF last_op = "score" THEN scored.value ELSE score
           /\ signals' =
                 IF last_op = "signals" THEN _count_signals(stock)
                 ELSE signals
           /\ buy_case' =
                 IF last_op = "buy_case" THEN ListOf(case) ELSE buy_case
           /\ risk_factors' =
                 IF last_op = "risks"
                 THEN LocalList(risk_factors, ListOf(risks))
                 ELSE risk_factors
           /\ raised' =
                 CASE last_op = "score" -> scored.raised
                   [] last_op = "signals" -> ""
                   [] last_op = "buy_case" -> case.raised
                   [] OTHER -> risks.raised
    /\ last_op' = IF clock = now THEN "again" ELSE "later"
    /\ UNCHANGED <<stock, reddit_mentions, sentiment, target_upside_pct>>
    /\ UNCHANGED reportVars
    /\ UNCHANGED <<sector_category, sessions, request>>

\* between two runs the clock has moved not at all, by an hour or by a day
AnalyzeInSecondRun == \E step \in {0, 1, HoursPerDay} : SecondRun(now + step)

\* lines 752-758 and 803
StoreTargetUpside ==
    /\ last_op = "new"
    /\ LET error == IF UpsideGuard(stock)
                    THEN DivisionError(stock.current_price) ELSE ""
       IN  /\ target_upside_pct' =
                 IF error = "" THEN TargetUpside(stock) ELSE None
           /\ raised' = error
    /\ last_op' = "stored"
    /\ UNCHANGED <<stock, reddit_mentions, sentiment, score, now, signals,
                   buy_case, risk_factors>>
    /\ UNCHANGED reportVars
    /\ UNCHANGED <<sector_category, sessions, request>>

NextAnalysis ==
    \/ CalculateScore
    \/ CountSignals
    \/ GenerateBuyCase
    \/ GenerateRiskFactors
    \/ AnalyzeInSecondRun
    \/ StoreTargetUpside

SpecAnalysis == InitAnalysis /\ [][NextAnalysis]_vars

(***************************************************************************)
(* generate_report, steps 2 and 3: filter, prioritise, truncate, fetch     *)
(***************************************************************************)
BoolInt(b) == IF b THEN 1 ELSE 0

PriorityKeyMentionsOnly(d) == <<d.total_mentions>>

\* key=lambda x: (x[1].get("is_watchlist", False), x[1]["total_mentions"])
PriorityKey(d) == <<BoolInt(d.is_watchlist), d.total_mentions>>

Qualifying(agg) ==
    LET q == SelectSeq(agg, LAMBDA d : d.total_mentions >= MIN_REDDIT_MENTIONS)
    IN  SortedDescending(q, [i \in 1..Len(q) |-> PriorityKey(q[i])])

QualifyingTickers(agg, limit) ==
    LET q == Take(Qualifying(agg), limit)
    IN  [i \in 1..Len(q) |-> q[i].ticker]

\* StockFetcher.fetch_multiple: results[ticker] = fetch_stock(ticker) for
\* each ticker in list order, so the dict's keys are the tickers in that order
FetchMultiple(tickers) == tickers

\* aggregated.get(ticker, {}): the dict is keyed by ticker, and ticker t is
\* its t-th key
MentionData(agg, t) ==
    IF t \in DOMAIN agg
    THEN agg[t]
    ELSE [ticker |-> t, total_mentions |-> 0, is_watchlist |-> FALSE,
          avg_sentiment |-> 0]

(***************************************************************************)
(* generate_report, step 4: the analysis loop                              *)
(***************************************************************************)
\* the AnalyzedStock built for one snapshot; its stock_data is a reference
\* to the StockData object, market[ticker]
AnalyzedStock(sd, mentions, sent) ==
    [ticker |-> sd.ticker, reddit_mentions |-> mentions,
     reddit_sentiment |-> sent, score |-> _calculate_score(sd, mentions, sent),
     is_dark_horse |-> FALSE, dark_horse_reasons |-> <<>>]

\* analyzed.stock_data
StockDataOf(a) == market[a.ticker]

AnalyzeUnfiltered(sdm, agg) ==
    [i \in 1..Len(sdm) |->
        LET d == MentionData(agg, sdm[i])
        IN  AnalyzedStock(market[sdm[i]], d.total_mentions, d.avg_sentiment)]

\* the loop over stock_data_map.items(): sdm is the key order
Analyze(sdm, agg) ==
    LET valid == SelectSeq(sdm, LAMBDA t : market[t].is_valid)
    IN  [i \in 1..Len(valid) |->
            LET d == MentionData(agg, valid[i])
            IN  AnalyzedStock(market[valid[i]], d.total_mentions,
                              d.avg_sentiment)]

(***************************************************************************)
(* ReportGenerator._identify_dark_horses                                   *)
(***************************************************************************)
DarkHorseReasons(a) ==
    (IF a.reddit_mentions < DARK_HORSE_MAX_MENTIONS
        THEN <<"mentions">> ELSE <<>>)
    \o (IF /\ Truthy(StockDataOf(a).institutional_ownership)
           /\ StockDataOf(a).institutional_ownership
                < DARK_HORSE_MAX_INSTITUTIONAL_PCT
        THEN <<"institutional">> ELSE <<>>)
    \o (IF StockDataOf(a).market_cap_category \in {"small", "mid"}
        THEN <<"market_cap">> ELSE <<>>)
    \o (IF /\ Truthy(StockDataOf(a).analyst_count)
           /\ StockDataOf(a).analyst_count < 10
        THEN <<"analysts">> ELSE <<>>)

IsDarkHorseAtFloor(a) ==
    Len(DarkHorseReasons(a)) >= 2 /\ a.score >= DARK_HORSE_SCORE_FLOOR

IsDarkHorse(a) ==
    Len(DarkHorseReasons(a)) >= 2 /\ a.score > DARK_HORSE_SCORE_FLOOR

FlaggedWithReasonsForAll(analyzed) ==
    [i \in 1..Len(analyzed) |->
        [analyzed[i] EXCEPT !.is_dark_horse = IsDarkHorse(analyzed[i]),
                            !.dark_horse_reasons =
                                DarkHorseReasons(analyzed[i])]]

\* the analyzed list after the pass (stocks are flagged in place)
Flagged(analyzed) ==
    [i \in 1..Len(analyzed) |->
        IF IsDarkHorse(analyzed[i])
        THEN [analyzed[i] EXCEPT !.is_dark_horse = TRUE,
                                 !.dark_horse_reasons =
                                     DarkHorseReasons(analyzed[i])]
        ELSE analyzed[i]]

\* the tickers of a list of AnalyzedStock, in list order
Tickers(list) == [i \in 1..Len(list) |-> list[i].ticker]

\* the list the pass returns
DarkHorsesOf(flagged) ==
    Tickers(SelectSeq(flagged, LAMBDA a : a.is_dark_horse))

(***************************************************************************)
(* generate_report, step 6: rank and select                                *)
(***************************************************************************)
ScoreKey(a) == <<a.score>>

MainPicksCount == TOP_STOCKS_COUNT - DARK_HORSE_COUNT

ScoreKeys(list) == [i \in 1..Len(list) |-> ScoreKey(list[i])]

NegatedScoreKeys(list) == [i \in 1..Len(list) |-> <<-list[i].score>>]

SortByScoreUnstable(list) ==
    Reverse(SortedDescending(list, NegatedScoreKeys(list)))

SortByScoreAscending(list) == SortedDescending(list, NegatedScoreKeys(list))

SortByScoreSkipped(list) == list

\* analyzed_stocks.sort(key=lambda x: x.score, reverse=True)
SortByScoreDescending(list) == SortedDescending(list, ScoreKeys(list))

MainPicksUnfiltered(sorted) == Tickers(Take(sorted, MainPicksCount))

\* [s for s in analyzed_stocks if not s.is_dark_horse][:main_picks_count]
MainPicksOf(sorted) ==
    Tickers(Take(SelectSeq(sorted, LAMBDA a : ~a.is_dark_horse),
                 MainPicksCount))

\* the dark horses that fit in the slots the main picks left free
DarkHorsePicksFillingReport(dh) == Take(dh, TOP_STOCKS_COUNT)

\* dark_horses[:settings.DARK_HORSE_COUNT]
DarkHorsePicksOf(dh) == Take(dh, DARK_HORSE_COUNT)

(***************************************************************************)
(* generate_report, step 8: one ReportStock per pick                       *)
(***************************************************************************)
RankFromZero(i) == i - 1

\* enumerate(final_picks, 1)
RankOf(i) == i

\* the objects a list of references points to
Deref(refs, analyzed) ==
    [i \in 1..Len(refs) |->
        analyzed[CHOOSE k \in 1..Len(analyzed) : analyzed[k].ticker = refs[i]]]

\* steps 4 to 6 as one function of the fetched map: the final picks
RankingOf(sdm, agg) ==
    LET flagged == Flagged(Analyze(sdm, agg))
    IN  Deref(MainPicksOf(SortByScoreDescending(flagged))
                  \o DarkHorsePicksOf(DarkHorsesOf(flagged)),
              flagged)

ReportStocksOf(picks, analyzed) ==
    LET objs == Deref(picks, analyzed)
    IN  [i \in 1..Len(objs) |->
            [rank |-> RankOf(i), ticker |-> objs[i].ticker,
             is_dark_horse |-> objs[i].is_dark_horse,
             dark_horse_reasons |-> objs[i].dark_horse_reasons]]

(***************************************************************************)
(* Persistence: the reports committed to the database                      *)
(***************************************************************************)
\* report_date = datetime.now().replace(hour=21, minute=0, ...), in hours
ReportDate(clock) == (clock \div HoursPerDay) * HoursPerDay + 21

DailyReport(date, rows) == [report_date |-> date, report_stocks |-> rows]

\* lines 709-716: the report of the same date is deleted with its rows
WithoutReport(reports, date) ==
    SelectSeq(reports, LAMBDA r : r.report_date # date)

AfterLateReturn(reports, date) == WithoutReport(reports, date)

\* lines 683-685: the return precedes every statement that touches the
\* session
AfterEarlyReturn(reports, date) == reports

\* the report an earlier run of the day committed
ExistingReport ==
    DailyReport(ReportDate(0),
                <<[rank |-> 1, ticker |-> 1, is_dark_horse |-> FALSE,
                   dark_horse_reasons |-> <<>>]>>)

(***************************************************************************)
(* Inputs of a run.  The mention provider and the metrics provider are     *)
(* external; a run is fed a list of tickers, each with mention data and    *)
(* the snapshot fetch_stock returns for it.  Tickers are numbered in the   *)
(* insertion order of the aggregated dict.  The list repeats a short       *)
(* pattern of profiles, so that long lists with ties occur.                *)
(***************************************************************************)
MaxTickers == 20
PatternLen == 2

Profiles ==
    {"main_lo", "main_hi", "dark_lo", "dark_hi", "floor", "invalid",
     "below", "watch"}

\* mentions, watchlist flag and sentiment (hundredths) of each profile
ProfileMentions(p) ==
    CASE p = "floor" -> 20
      [] p = "below" -> 3
      [] p = "watch" -> 6
      [] OTHER -> 60

ProfileSentiment(p) == IF p = "floor" THEN 40 ELSE 0

ProfileMention(p, t) ==
    [ticker |-> t, total_mentions |-> ProfileMentions(p),
     is_watchlist |-> (p = "watch"), avg_sentiment |-> ProfileSentiment(p)]

\* the snapshot of each profile
\*   main_lo  score  80, no under-coverage reason
\*   main_hi  score 105, one reason (analysts)
\*   dark_lo  score  80, two reasons (institutional, market_cap)
\*   dark_hi  score 105, three reasons
\*   floor    score  50, two reasons (mentions, market_cap)
\*   watch    score  30, one reason (mentions), watchlist
\*   invalid  the provider could not resolve the symbol
\*   below    fewer mentions than MIN_REDDIT_MENTIONS
ProfileStock(p, t) ==
    CASE p = "main_lo" ->
           StockData(t, TRUE, 4500, 10000, None, None, None, None, None,
                     <<>>, None, 7000, "large", 20)
      [] p = "main_hi" ->
           StockData(t, TRUE, 4500, 10000, 2500, None, None, None, None,
                     <<>>, None, 7000, "large", 5)
      [] p = "dark_lo" ->
           StockData(t, TRUE, 4500, 10000, None, None, None, None, None,
                     <<>>, None, 3000, "small", 20)
      [] p = "dark_hi" ->
           StockData(t, TRUE, 4500, 10000, 2500, None, None, None, None,
                     <<>>, None, 3000, "mid", 5)
      [] p = "floor" ->
           StockData(t, TRUE, 0, 10000, None, None, None, 20, None,
                     <<>>, None, None, "small", 0)
      [] p = "watch" ->
           StockData(t, TRUE, 2000, 10000, None, None, None, None, None,
                     <<>>, None, None, "large", 0)
      [] p = "invalid" ->
           StockData(t, FALSE, 0, 0, None, None, None, None, None,
                     <<>>, None, None, "", 0)
      [] OTHER ->
           StockData(t, TRUE, 4500, 10000, None, None, None, None, None,
                     <<>>, None, 7000, "large", 20)

Patterns == UNION {[1..k -> Profiles] : k \in 1..PatternLen}

\* profile of ticker t when the pattern is repeated
ProfileAt(pattern, t) == pattern[((t - 1) % Len(pattern)) + 1]

ScoreIdle ==
    /\ stock = IdleStock
    /\ reddit_mentions = 0
    /\ sentiment = 0
    /\ score = None
    /\ last_op = "none"

\* a run over at most `most` tickers, started on one of the databases of
\* `stored`
InitRun(most, stored) ==
    /\ \E n \in 0..most, pattern \in Patterns :
        /\ aggregated = [t \in 1..n |-> ProfileMention(ProfileAt(pattern, t), t)]
        /\ market = [t \in 1..n |-> ProfileStock(ProfileAt(pattern, t), t)]
    /\ max_stocks \in {MAX_STOCKS_WEB, MAX_STOCKS_WORKER}
    /\ db \in stored
    /\ pc = "start"
    /\ qualifying_tickers = <<>>
    /\ stock_data_map = <<>>
    /\ analyzed_stocks = <<>>
    /\ dark_horses = <<>>
    /\ main_picks = <<>>
    /\ final_picks = <<>>
    /\ report_stocks = <<>>
    /\ ScoreIdle
    /\ AnalysisIdle
    /\ sector_category = ""
    /\ sessions = <<>>
    /\ request = IdleRequest

\* a run on a fresh database
Init == InitRun(MaxTickers, {<<>>})

\* a run on a fresh database or on one that holds a report of the same day
MaxStoredTickers == 4

InitStored == InitRun(MaxStoredTickers, {<<>>, <<ExistingReport>>})

(***************************************************************************)
(* generate_report, phase by phase                                         *)
(***************************************************************************)
\* step 1 when Reddit gave no mention (lines 596-600): the call
\* get_fallback_mentions(use_screener=use_screener) meets
\* def get_fallback_mentions() -> dict (reddit_scraper.py 426)
FallbackMentions ==
    /\ pc = "start"
    /\ aggregated = <<>>
    /\ raised' = "TypeError"
    /\ pc' = "raised"
    /\ UNCHANGED <<aggregated, market, max_stocks, qualifying_tickers,
                   stock_data_map, analyzed_stocks, dark_horses, main_picks,
                   final_picks, report_stocks, db>>
    /\ UNCHANGED scoreVars
    /\ UNCHANGED <<sector_category, sessions, request>>
    /\ UNCHANGED <<now, signals, buy_case, risk_factors, target_upside_pct>>

\* steps 2 and 3 (lines 604-624)
SelectAndFetch ==
    /\ pc = "start"
    /\ aggregated # <<>>
    /\ qualifying_tickers' = QualifyingTickers(aggregated, max_stocks)
    /\ stock_data_map' = FetchMultiple(qualifying_tickers')
    /\ pc' = "fetched"
    /\ UNCHANGED <<aggregated, market, max_stocks, analyzed_stocks,
                   dark_horses, main_picks, final_picks, report_stocks, db>>
    /\ UNCHANGED scoreVars
    /\ UNCHANGED <<sector_category, sessions, request>>
    /\ UNCHANGED analysisVars

\* step 4 (lines 626-681), at least one stock analyzed.  The step is taken
\* for snapshots on which the narrative calls of lines 659-660 return; those
\* calls are the subject of SpecAnalysis.
AnalyzeStocks ==
    /\ pc = "fetched"
    /\ Analyze(stock_data_map, aggregated) # <<>>
    /\ analyzed_stocks' = Analyze(stock_data_map, aggregated)
    /\ pc' = "analyzed"
    /\ UNCHANGED <<aggregated, market, max_stocks, qualifying_tickers,
                   stock_data_map, dark_horses, main_picks, final_picks,
                   report_stocks, db>>
    /\ UNCHANGED scoreVars
    /\ UNCHANGED <<sector_category, sessions, request>>
    /\ UNCHANGED analysisVars

\* step 4 and the early return (lines 683-685): no stock passed.  The
\* callers (routes.py 77-95, scheduler.py 63-74) report the failure and close
\* the session without a commit.
ReturnNone ==
    /\ pc = "fetched"
    /\ Analyze(stock_data_map, aggregated) = <<>>
    /\ analyzed_stocks' = <<>>
    /\ db' = AfterEarlyReturn(db, ReportDate(now))
    /\ pc' = "none"
    /\ UNCHANGED <<aggregated, market, max_stocks, qualifying_tickers,
                   stock_data_map, dark_horses, main_picks, final_picks,
                   report_stocks>>
    /\ UNCHANGED scoreVars
    /\ UNCHANGED <<sector_category, sessions, request>>
    /\ UNCHANGED analysisVars

\* step 5 (lines 687-689)
IdentifyDarkHorses ==
    /\ pc = "analyzed"
    /\ analyzed_stocks' = Flagged(analyzed_stocks)
    /\ dark_horses' = DarkHorsesOf(analyzed_stocks')
    /\ pc' = "flagged"
    /\ UNCHANGED <<aggregated, market, max_stocks, qualifying_tickers,
                   stock_data_map, main_picks, final_picks, report_stocks, db>>
    /\ UNCHANGED scoreVars
    /\ UNCHANGED <<sector_category, sessions, request>>
    /\ UNCHANGED analysisVars

\* step 6 (lines 691-703)
RankAndSelect ==
    /\ pc = "flagged"
    /\ analyzed_stocks' = SortByScoreDescending(analyzed_stocks)
    /\ main_picks' = MainPicksOf(analyzed_stocks')
    /\ final_picks' = main_picks' \o DarkHorsePicksOf(dark_horses)
    /\ pc' = "ranked"
    /\ UNCHANGED <<aggregated, market, max_stocks, qualifying_tickers,
                   stock_data_map, dark_horses, report_stocks, db>>
    /\ UNCHANGED scoreVars
    /\ UNCHANGED <<sector_category, sessions, request>>
    /\ UNCHANGED analysisVars

\* steps 7 and 8 (lines 705-822)
SaveReport ==
    /\ pc = "ranked"
    /\ report_stocks' = ReportStocksOf(final_picks, analyzed_stocks)
    /\ db' = Append(WithoutReport(db, ReportDate(now)),
                    DailyReport(ReportDate(now), report_stocks'))
    /\ pc' = "done"
    /\ UNCHANGED <<aggregated, market, max_stocks, qualifying_tickers,
                   stock_data_map, analyzed_stocks, dark_horses, main_picks,
                   final_picks>>
    /\ UNCHANGED scoreVars
    /\ UNCHANGED <<sector_category, sessions, request>>
    /\ UNCHANGED analysisVars

Next ==
    \/ FallbackMentions
    \/ SelectAndFetch
    \/ AnalyzeStocks
    \/ ReturnNone
    \/ IdentifyDarkHorses
    \/ RankAndSelect
    \/ SaveReport

Spec == Init /\ [][Next]_vars

SpecStored == InitStored /\ [][Next]_vars

(***************************************************************************)
(* ReportGenerator._categorize_sector.  Texts are strings; lower() and the *)
(* substring test `kw in text` are computed on their characters.           *)
(***************************************************************************)
\* str.lower(): each upper-case letter is replaced by its lower-case letter
RECURSIVE Lower(_)
Lower(text) ==
    LET UpperCase == "ABCDEFGHIJKLMNOPQRSTUVWXYZ"
        LowerCase == "abcdefghijklmnopqrstuvwxyz"
        c == SubSeq(text, 1, 1)
        LowerChar ==
            IF \E i \in 1..Len(UpperCase) : SubSeq(UpperCase, i, i) = c
            THEN LET i == CHOOSE k \in 1..Len(UpperCase) :
                              SubSeq(UpperCase, k, k) = c
                 IN  SubSeq(LowerCase, i, i)
            ELSE c
    IN  IF text = "" THEN ""
        ELSE LowerChar \o Lower(SubSeq(text, 2, Len(text)))

\* kw in text
Contains(text, kw) ==
    \E i \in 1..(Len(text) - Len(kw) + 1) :
        SubSeq(text, i, i + Len(kw) - 1) = kw

\* the keyword list of each category (lines 112, 113, 121, 127)
Keywords ==
    [ai |-> {"artificial intelligence", "machine learning", "ai ", "neural",
             "data"},
     tech |-> {"technology", "software", "semiconductor", "internet",
               "computer"},
     medical |-> {"health", "medical", "biotech", "pharma", "drug",
                  "therapeutic"},
     international |-> {"adr", "international", "global", "foreign"}]

\* any(kw in text for kw in the category's keywords)
AnyIn(category, text) == \E kw \in Keywords[category] : Contains(text, kw)

\* lines 115 to 131: the AI and the international keywords are looked for in
\* the industry only, the technology and the medical keywords in both texts
_categorize_sector(sector, industry) ==
    LET sector_lower == Lower(sector)
        industry_lower == Lower(industry)
    IN  IF AnyIn("ai", industry_lower) THEN "ai"
        ELSE IF AnyIn("tech", sector_lower) \/ AnyIn("tech", industry_lower)
             THEN "tech"
        ELSE IF AnyIn("medical", sector_lower)
                    \/ AnyIn("medical", industry_lower)
             THEN "medical"
        ELSE IF AnyIn("international", industry_lower) THEN "international"
        ELSE "other"

(***************************************************************************)
(* Sector harness: a snapshot whose sector and industry are texts the      *)
(* metrics provider may send ("Unknown" when it sends none), categorized   *)
(* once.                                                                   *)
(***************************************************************************)
InitSector ==
    /\ \E sector \in {"Unknown", "Technology", "Healthcare",
                       "Financial Services", "Artificial Intelligence",
                       "Global Markets", "ENERGY"},
          industry \in {"Unknown", "Software - Infrastructure",
                         "Semiconductors", "Biotechnology",
                         "Drug Manufacturers", "Data Processing", "AI Chips",
                         "Machine Learning Software", "Banks - Global",
                         "ADR Holdings", "Thai Restaurants",
                         "Specialty Retail", "HEALTH CARE PLANS",
                         "Oil & Gas"} :
        stock = IdleStock @@ [BareFields EXCEPT !.sector = sector,
                                                !.industry = industry]
    /\ reddit_mentions = 0
    /\ sentiment = 0
    /\ score = None
    /\ last_op = "new"
    /\ AnalysisIdle
    /\ ReportIdle
    /\ sector_category = ""
    /\ sessions = <<>>
    /\ request = IdleRequest

\* sector_category = self._categorize_sector(stock_data.sector,
\*                                            stock_data.industry)
CategorizeSector ==
    /\ last_op = "new"
    /\ sector_category' = _categorize_sector(stock.sector, stock.industry)
    /\ last_op' = "category"
    /\ UNCHANGED <<stock, reddit_mentions, sentiment, score, sessions, request>>
    /\ UNCHANGED analysisVars
    /\ UNCHANGED reportVars

SpecSector == InitSector /\ [][CategorizeSector]_vars

(***************************************************************************)
(* Dark-horse harness: _identify_dark_horses applied to a list of          *)
(* AnalyzedStock objects as the loop of step 4 leaves them, every field of *)
(* the dataclass (lines 77-96) filled in.                                  *)
(***************************************************************************)
MaxAnalyzed == 3

\* the fields of AnalyzedStock the loop fills from its per-stock calls
\* (lines 671-676), one combination per profile
AnalysisFields(p) ==
    [sector_category |->
        CASE p \in {"main_lo", "dark_lo"} -> "tech"
          [] p \in {"main_hi", "dark_hi"} -> "medical"
          [] OTHER -> "other",
     bullish_signals |-> IF p \in {"main_hi", "dark_hi"} THEN 3 ELSE 1,
     bearish_signals |-> IF p = "floor" THEN 2 ELSE 0,
     neutral_signals |-> IF p = "watch" THEN 1 ELSE 0,
     buy_case |-> <<"Trading 45% below all-time high">>,
     risk_factors |->
        IF p = "floor" THEN <<"High debt load", "Negative free cash flow">>
        ELSE <<"No major red flags">>]

InitDarkHorse ==
    /\ \E n \in 1..MaxAnalyzed :
        \E profiles \in [1..n -> Profiles \ {"invalid", "below"}] :
            /\ aggregated = [t \in 1..n |-> ProfileMention(profiles[t], t)]
            /\ market = [t \in 1..n |-> ProfileStock(profiles[t], t)]
            /\ analyzed_stocks =
                 [t \in 1..n |->
                     [f \in {"ticker", "reddit_mentions", "reddit_sentiment",
                             "score", "is_dark_horse", "dark_horse_reasons"}
                         \cup DOMAIN AnalysisFields(profiles[t]) |->
                         CASE f = "ticker" -> t
                           [] f = "reddit_mentions" ->
                                ProfileMentions(profiles[t])
                           [] f = "reddit_sentiment" ->
                                ProfileSentiment(profiles[t])
                           [] f = "score" ->
                                _calculate_score(ProfileStock(profiles[t], t),
                                                 ProfileMentions(profiles[t]),
                                                 ProfileSentiment(profiles[t]))
                           [] f = "is_dark_horse" -> FALSE
                           [] f = "dark_horse_reasons" -> <<>>
                           [] OTHER -> AnalysisFields(profiles[t])[f]]]
            /\ qualifying_tickers = [t \in 1..n |-> t]
            /\ stock_data_map = [t \in 1..n |-> t]
    /\ max_stocks = MAX_STOCKS_WEB
    /\ db = <<>>
    /\ pc = "analyzed"
    /\ dark_horses = <<>>
    /\ main_picks = <<>>
    /\ final_picks = <<>>
    /\ report_stocks = <<>>
    /\ ScoreIdle
    /\ AnalysisIdle
    /\ sector_category = ""
    /\ sessions = <<>>
    /\ request = IdleRequest

SpecDarkHorse == InitDarkHorse /\ [][IdentifyDarkHorses]_vars

(***************************************************************************)
(* Callers and sessions.  generate_report runs on the Session its caller   *)
(* opened: the web request (routes.py 77-95, get_db), the background task  *)
(* (routes.py 19-25) and the scheduled job (scheduler.py 54-74).  A        *)
(* session's statements belong to one transaction: flush() sends them to   *)
(* the database, commit() makes them visible to the other sessions,        *)
(* close() discards what was not committed.  All runs fall on one day.     *)
(***************************************************************************)
Callers == {"web", "background", "scheduled"}

\* the entries step 8 creates in the run of caller c
RowsOf(c) ==
    LET n == CASE c = "web" -> 1 [] c = "background" -> 2 [] OTHER -> 3
    IN  [i \in 1..n |->
            [rank |-> RankOf(i), ticker |-> i, is_dark_horse |-> FALSE,
             dark_horse_reasons |-> <<>>]]

\* a daily_reports row with its primary key.  A key is the caller whose run
\* inserted the row with that caller's serial number at the time (0 or 1,
\* alternating), <<"earlier", 0>> for a report found at the start; <<>>
\* stands for no row.
StoredReport(id, date, rows) == DailyReport(date, rows) @@ [id |-> id]

\* a caller outside generate_report
IdleSession ==
    [pc |-> "idle", open |-> FALSE, existing |-> <<>>, deleted |-> <<>>,
     added |-> FALSE, raised |-> "", propagated |-> FALSE, serial |-> 0]

\* .filter(DailyReport.report_date == report_date).first() on the committed
\* rows: the key of the first row of that date, <<>> for None
FirstOfDate(reports, date) ==
    IF \E i \in 1..Len(reports) : reports[i].report_date = date
    THEN reports[CHOOSE i \in 1..Len(reports) :
            /\ reports[i].report_date = date
            /\ \A j \in 1..(i - 1) : reports[j].report_date # date].id
    ELSE <<>>

InsertErrorWithoutUnique(reports, deleted, date) == ""

\* report_date = Column(DateTime, nullable=False, unique=True): the INSERT
\* of line 743 fails when a committed row of that date exists that this
\* transaction has not deleted
InsertError(reports, deleted, date) ==
    IF \E i \in 1..Len(reports) :
          reports[i].report_date = date /\ reports[i].id # deleted
    THEN "IntegrityError" ELSE ""

AfterCommittedDelete(reports, id) ==
    SelectSeq(reports, LAMBDA r : r.id # id)

\* self.db.delete(existing); self.db.flush(): the committed rows are as
\* before
AfterFlush(reports, id) == reports

CommittedWithoutDelete(reports, deleted, report) == Append(reports, report)

\* self.db.commit() (line 819): the deleted report goes with its entries
\* (cascade="all, delete-orphan"), the new report comes with its entries
Committed(reports, deleted, report) ==
    Append(SelectSeq(reports, LAMBDA r : r.id # deleted), report)

PropagatesFromAnyCaller(c, exception) == exception # ""

\* whether the caller lets the exception out: run_daily_report catches
\* Exception and logs it; the background task has no except clause and the
\* route re-raises it as HTTPException
Propagates(c, exception) == exception # "" /\ c # "scheduled"

InitSessions ==
    /\ sessions = [c \in Callers |-> IdleSession]
    /\ db \in {<<>>,
               <<StoredReport(<<"earlier", 0>>, ExistingReport.report_date,
                              ExistingReport.report_stocks)>>}
    /\ aggregated = <<>>
    /\ market = <<>>
    /\ max_stocks = MAX_STOCKS_WEB
    /\ pc = "idle"
    /\ qualifying_tickers = <<>>
    /\ stock_data_map = <<>>
    /\ analyzed_stocks = <<>>
    /\ dark_horses = <<>>
    /\ main_picks = <<>>
    /\ final_picks = <<>>
    /\ report_stocks = <<>>
    /\ ScoreIdle
    /\ AnalysisIdle
    /\ sector_category = ""
    /\ request = IdleRequest

\* one statement of caller c: its session becomes s and the committed rows
\* become reports
SessionStep(c, s, reports) ==
    /\ sessions' = [sessions EXCEPT ![c] = s]
    /\ db' = reports
    /\ UNCHANGED <<aggregated, market, max_stocks, pc, qualifying_tickers,
                   stock_data_map, analyzed_stocks, dark_horses, main_picks,
                   final_picks, report_stocks>>
    /\ UNCHANGED scoreVars
    /\ UNCHANGED analysisVars
    /\ UNCHANGED <<sector_category, request>>

\* the caller opens a session and generate_report runs steps 1 to 6: it
\* reaches step 7 with its final picks, returns None (lines 683-685) or
\* raises
StartRun(c) ==
    /\ sessions[c].pc \in {"idle", "closed"}
    /\ \E outcome \in {"step7", "none", "raised"} :
        SessionStep(c, [IdleSession EXCEPT
                           !.pc = outcome, !.open = TRUE,
                           !.serial = sessions[c].serial,
                           !.raised = IF outcome = "raised"
                                      THEN "Exception" ELSE ""],
                    db)

\* lines 709-711
QueryExisting(c) ==
    /\ sessions[c].pc = "step7"
    /\ SessionStep(c, [sessions[c] EXCEPT
                          !.pc = "queried",
                          !.existing = FirstOfDate(db, ReportDate(now))],
                   db)

\* lines 713-716.  The DELETE waits while another open transaction has
\* deleted the same row; it matches no row when the row is gone.
DeleteExisting(c) ==
    /\ sessions[c].pc = "queried"
    /\ \A d \in Callers \ {c} :
        sessions[c].existing = <<>>
            \/ sessions[d].deleted # sessions[c].existing
    /\ SessionStep(c, [sessions[c] EXCEPT
                          !.pc = "deleted",
                          !.deleted =
                              IF \E i \in 1..Len(db) :
                                    db[i].id = sessions[c].existing
                              THEN sessions[c].existing ELSE <<>>],
                   AfterFlush(db, sessions[c].existing))

\* lines 729-743.  The INSERT waits while another open transaction has
\* inserted a row of the same date.
AddReport(c) ==
    /\ sessions[c].pc = "deleted"
    /\ \A d \in Callers \ {c} : ~sessions[d].added
    /\ LET error == InsertError(db, sessions[c].deleted, ReportDate(now))
       IN  SessionStep(c, IF error = ""
                          THEN [sessions[c] EXCEPT !.pc = "added",
                                                   !.added = TRUE]
                          ELSE [sessions[c] EXCEPT !.pc = "raised",
                                                   !.raised = error],
                       db)

\* lines 746-822: the entries are added and the transaction is committed.
\* A session that still holds the report this commit removes holds a key of
\* no row from now on, written <<"gone", 0>>, so that the key can be given
\* to a later report.
CommitReport(c) ==
    /\ sessions[c].pc = "added"
    /\ sessions' =
           [d \in Callers |->
               IF d = c
               THEN [sessions[c] EXCEPT
                        !.pc = "returned", !.deleted = <<>>,
                        !.added = FALSE,
                        !.serial = 1 - sessions[c].serial]
               ELSE IF /\ sessions[c].deleted # <<>>
                       /\ sessions[d].existing = sessions[c].deleted
                    THEN [sessions[d] EXCEPT !.existing = <<"gone", 0>>]
                    ELSE sessions[d]]
    /\ db' = Committed(db, sessions[c].deleted,
                       StoredReport(<<c, sessions[c].serial>>,
                                    ReportDate(now), RowsOf(c)))
    /\ UNCHANGED <<aggregated, market, max_stocks, pc, qualifying_tickers,
                   stock_data_map, analyzed_stocks, dark_horses, main_picks,
                   final_picks, report_stocks>>
    /\ UNCHANGED scoreVars
    /\ UNCHANGED analysisVars
    /\ UNCHANGED <<sector_category, request>>

\* a statement of steps 7 and 8 raises; the exception leaves
\* generate_report, which has no handler around them
RaiseInRun(c) ==
    /\ sessions[c].pc \in {"step7", "queried", "deleted", "added"}
    /\ SessionStep(c, [sessions[c] EXCEPT !.pc = "raised",
                                          !.raised = "Exception"],
                   db)

\* the caller's handlers: the session is closed (finally: db.close()), which
\* discards the uncommitted statements
EndRun(c) ==
    /\ sessions[c].pc \in {"returned", "none", "raised"}
    /\ SessionStep(c, [IdleSession EXCEPT
                          !.pc = "closed",
                          !.serial = sessions[c].serial,
                          !.raised = sessions[c].raised,
                          !.propagated =
                              Propagates(c, sessions[c].raised)],
                   db)

NextSessions ==
    \E c \in Callers :
        \/ StartRun(c)
        \/ QueryExisting(c)
        \/ DeleteExisting(c)
        \/ AddReport(c)
        \/ CommitReport(c)
        \/ RaiseInRun(c)
        \/ EndRun(c)

SpecSessions == InitSessions /\ [][NextSessions]_vars

(***************************************************************************)
(* FinnhubClient._make_request (finnhub_client.py lines 53-77)             *)
(***************************************************************************)
\* the depth at which the interpreter refuses a further frame; the method
\* itself counts nothing
RecursionLimit == 60

\* a call with or without a configured key
InitRequest ==
    /\ request \in {[IdleRequest EXCEPT !.api_key = k] : k \in {"", "token"}}
    /\ sessions = <<>>
    /\ db = <<>>
    /\ aggregated = <<>>
    /\ market = <<>>
    /\ max_stocks = MAX_STOCKS_WEB
    /\ pc = "idle"
    /\ qualifying_tickers = <<>>
    /\ stock_data_map = <<>>
    /\ analyzed_stocks = <<>>
    /\ dark_horses = <<>>
    /\ main_picks = <<>>
    /\ final_picks = <<>>
    /\ report_stocks = <<>>
    /\ ScoreIdle
    /\ AnalysisIdle
    /\ sector_category = ""

\* lines 53-62: the method is entered, from outside or from line 72.  Without
\* a key it returns None.  When no further frame fits, RecursionError is
\* raised: inside the try of the deepest frame it is caught by line 75 and
\* None comes back through every frame; outside it, it passes through the
\* handlers of line 68, in which every calling frame is executing.
MakeRequest ==
    /\ request.pc \in {"idle", "retry"}
    /\ \/ /\ request.api_key = ""
          /\ request' = [request EXCEPT !.pc = "ended", !.result = "None"]
       \/ /\ request.api_key # ""
          /\ request.attempts < RecursionLimit
          /\ request' = [request EXCEPT !.pc = "get",
                                        !.attempts = request.attempts + 1]
       \/ /\ request.api_key # ""
          /\ request.attempts >= RecursionLimit
          /\ \/ request' = [request EXCEPT !.pc = "ended", !.result = "None"]
             \/ request' = [request EXCEPT !.pc = "ended",
                                           !.raised = "RecursionError"]
    /\ UNCHANGED <<aggregated, market, max_stocks, pc, qualifying_tickers,
                   stock_data_map, analyzed_stocks, dark_horses, main_picks,
                   final_picks, report_stocks, db>>
    /\ UNCHANGED scoreVars
    /\ UNCHANGED analysisVars
    /\ UNCHANGED <<sector_category, sessions>>

\* lines 64-77: one HTTP attempt.  A 2xx answer returns its body; 429 sleeps
\* one second and calls the method again; any other status and any other
\* exception return None.
Get ==
    /\ request.pc = "get"
    /\ \E status \in {"200", "429", "500", "ConnectError"} :
        request' =
           [request EXCEPT
               !.status = status,
               !.pc = IF status = "429" THEN "retry" ELSE "ended",
               !.result = CASE status = "200" -> "body"
                            [] status = "429" -> ""
                            [] OTHER -> "None"]
    /\ UNCHANGED <<aggregated, market, max_stocks, pc, qualifying_tickers,
                   stock_data_map, analyzed_stocks, dark_horses, main_picks,
                   final_picks, report_stocks, db>>
    /\ UNCHANGED scoreVars
    /\ UNCHANGED analysisVars
    /\ UNCHANGED <<sector_category, sessions>>

\* a call that has begun keeps running
SpecRequest ==
    InitRequest /\ [][MakeRequest \/ Get]_vars /\ WF_vars(MakeRequest \/ Get)

(***************************************************************************)
(* Properties                                                              *)
(***************************************************************************)
Ranked == pc \in {"ranked", "done"}

\* the picks as objects; the properties bind them once (\A x \in {e}) and
\* index the bound value
FinalPicks == Deref(final_picks, analyzed_stocks)

MainPicks == Deref(main_picks, analyzed_stocks)

DarkHorses == Deref(dark_horses, analyzed_stocks)

Scores(list) == [i \in 1..Len(list) |-> list[i].score]

InList(list, t) == \E i \in 1..Len(list) : list[i].ticker = t

\* position of ticker t in the iteration order of stock_data_map
InputIndex(t) ==
    CHOOSE k \in 1..Len(stock_data_map) : stock_data_map[k] = t

Unflagged(list) == SelectSeq(list, LAMBDA a : ~a.is_dark_horse)

\* C1: a report with N >= 1 entries stores the ranks 1..N, each once, in the
\* order of the concatenated list (main picks, then dark-horse picks)
RanksAreOneToN ==
    pc = "done" =>
        LET n == Len(report_stocks)
        IN  /\ n = Len(final_picks)
            /\ n >= 1
            /\ \A r \in 1..n :
                 Cardinality({i \in 1..n : report_stocks[i].rank = r}) = 1
            /\ \A i \in 1..n : report_stocks[i].rank \in 1..n
            /\ \A i \in 1..n :
                 /\ report_stocks[i].rank = i
                 /\ report_stocks[i].ticker
                      = (main_picks \o DarkHorsePicksOf(dark_horses))[i]

RanksAreOneToNWitness ==
    /\ pc = "done"
    /\ Len(report_stocks) >= 3
    /\ report_stocks[1].is_dark_horse = FALSE
    /\ report_stocks[Len(report_stocks)].is_dark_horse = TRUE

\* C2: the flagged entries of the final list are at most DARK_HORSE_COUNT,
\* every flagged entry is ranked after every unflagged one, and no ticker
\* appears twice
DarkHorsesTrail ==
    Ranked =>
        \A n \in {Len(final_picks)}, final \in {FinalPicks} :
            /\ Cardinality({i \in 1..n : final[i].is_dark_horse})
                 <= DARK_HORSE_COUNT
            /\ \A i, j \in 1..n :
                 (final[i].is_dark_horse /\ ~final[j].is_dark_horse)
                     => j < i
            /\ \A i, j \in 1..n :
                 final[i].ticker = final[j].ticker => i = j

DarkHorsesTrailWitness ==
    /\ pc = "done"
    /\ Len(dark_horses) > DARK_HORSE_COUNT
    /\ Len(main_picks) >= 2
    /\ Len(final_picks) = Len(main_picks) + DARK_HORSE_COUNT

\* C3: the dark-horse picks of the report are in non-increasing score order
\* and no dark horse left out of the report outscores one that is in it
DarkHorsePicksAreTheBest ==
    Ranked =>
        \A n \in {Len(final_picks)}, final \in {FinalPicks},
           dark \in {DarkHorses} :
            /\ \A i, j \in 1..n :
                 (/\ i < j
                  /\ final[i].is_dark_horse
                  /\ final[j].is_dark_horse)
                     => final[i].score >= final[j].score
            /\ \A k \in 1..Len(dark_horses), i \in 1..n :
                 (/\ ~InList(final, dark[k].ticker)
                  /\ final[i].is_dark_horse)
                     => dark[k].score <= final[i].score

\* permutations of the map's iteration order: the transposition of the first
\* two and of the last two entries, the rotation by one (with the first
\* transposition it generates every permutation) and the reversal
SwapAt(s, i) ==
    [k \in 1..Len(s) |->
        IF k = i THEN s[i + 1] ELSE IF k = i + 1 THEN s[i] ELSE s[k]]

Rotate(s) == IF s = <<>> THEN s ELSE Tail(s) \o <<Head(s)>>

Reorderings(s) ==
    {SwapAt(s, i) : i \in {1, Len(s) - 1} \cap 1..(Len(s) - 1)}
        \cup {Rotate(s), Reverse(s)}

TiesKeepInputOrder ==
    pc = "done" =>
        \A final \in {FinalPicks} :
            \A i, j \in 1..Len(final_picks) :
                (i < j /\ final[i].score = final[j].score)
                    => InputIndex(final[i].ticker) < InputIndex(final[j].ticker)

\* C5 as amended: two main picks with equal scores, or two dark-horse picks
\* with equal scores, are in their input order
TiesKeepInputOrderWithinGroup ==
    pc = "done" =>
        \A final \in {FinalPicks} :
            \A i, j \in 1..Len(final_picks) :
                (/\ i < j
                 /\ final[i].score = final[j].score
                 /\ final[i].is_dark_horse = final[j].is_dark_horse)
                    => InputIndex(final[i].ticker) < InputIndex(final[j].ticker)

TiesKeepInputOrderWitness ==
    /\ pc = "done"
    /\ \E i, j \in 1..Len(main_picks) :
         /\ i < j
         /\ MainPicks[i].score = MainPicks[j].score
    /\ \E i, j \in 1..Len(final_picks) :
         /\ i < j
         /\ FinalPicks[i].is_dark_horse
         /\ FinalPicks[j].is_dark_horse
         /\ FinalPicks[i].score = FinalPicks[j].score

\* the number of under-coverage checks a stock meets: mentions below the
\* ceiling, institutional ownership below the ceiling, small or mid cap,
\* analyst coverage below the floor
UnderCoverageCount(a) ==
    Cardinality(
        {c \in {"mentions", "institutional", "market_cap", "analysts"} :
            \/ c = "mentions" /\ a.reddit_mentions < 50
            \/ /\ c = "institutional"
               /\ StockDataOf(a).institutional_ownership \notin {None, 0}
               /\ StockDataOf(a).institutional_ownership < 4000
            \/ /\ c = "market_cap"
               /\ StockDataOf(a).market_cap_category \in {"small", "mid"}
            \/ /\ c = "analysts"
               /\ StockDataOf(a).analyst_count \in 1..9})

\* C6: after the dark-horse pass a stock is flagged iff it met at least 2 of
\* the four checks and scored above 50; a flagged stock carries one reason
\* per check it met (2 to 4), an unflagged stock carries none
DarkHorseGating ==
    pc \in {"flagged", "ranked", "done"} =>
        \A k \in 1..Len(analyzed_stocks) :
            LET a == analyzed_stocks[k]
                flagged == {dark_horses[d] : d \in 1..Len(dark_horses)}
            IN  /\ a.is_dark_horse
                     <=> (UnderCoverageCount(a) >= 2 /\ a.score > 5000)
                /\ a.is_dark_horse =>
                     /\ Len(a.dark_horse_reasons) = UnderCoverageCount(a)
                     /\ Len(a.dark_horse_reasons) \in 2..4
                     /\ \A x, y \in 1..Len(a.dark_horse_reasons) :
                          a.dark_horse_reasons[x] = a.dark_horse_reasons[y]
                              => x = y
                /\ ~a.is_dark_horse => a.dark_horse_reasons = <<>>
                /\ a.ticker \in flagged <=> a.is_dark_horse

DarkHorseGatingWitness ==
    /\ pc = "flagged"
    /\ \E k \in 1..Len(analyzed_stocks) :
         /\ analyzed_stocks[k].is_dark_horse
         /\ Len(analyzed_stocks[k].dark_horse_reasons) = 3
    /\ \E k \in 1..Len(analyzed_stocks) :
         /\ ~analyzed_stocks[k].is_dark_horse
         /\ UnderCoverageCount(analyzed_stocks[k]) = 2
         /\ analyzed_stocks[k].score = 5000

\* C7: the main picks are the first TOP_STOCKS_COUNT - DARK_HORSE_COUNT
\* unflagged stocks in descending-score order
MainPicksAreTheBest ==
    Ranked =>
        \A unflagged \in {Unflagged(analyzed_stocks)}, main \in {MainPicks},
           m \in {Len(main_picks)} :
            /\ m = Min(Len(unflagged), 18)
            /\ \A i \in 1..m :
                 /\ ~main[i].is_dark_horse
                 /\ InList(unflagged, main[i].ticker)
            /\ \A i, j \in 1..m :
                 i < j => /\ main[i].score >= main[j].score
                          /\ main[i].ticker # main[j].ticker
            /\ \A k \in 1..Len(unflagged), i \in 1..m :
                 ~InList(main, unflagged[k].ticker)
                     => unflagged[k].score <= main[i].score

MainPicksAreTheBestWitness ==
    /\ pc = "done"
    /\ Len(main_picks) = 18
    /\ Len(Unflagged(analyzed_stocks)) > 18
    /\ MainPicks[1].score > MainPicks[18].score
    /\ InputIndex(MainPicks[1].ticker) > InputIndex(MainPicks[18].ticker)

\* C8: removing a field from a snapshot never raises its score, and the
\* score of the snapshot without the field is still a number >= 0
AbsenceNeverRaisesScore ==
    [][last_op' = "remove" => (score' <= score /\ score' >= 0)]_vars

AbsenceNeverRaisesScoreWitness ==
    /\ last_op = "remove"
    /\ stock.rsi = None
    /\ stock.debt_to_equity = None
    /\ stock.current_price = 0
    /\ score > 0

\* C9: of two snapshots that differ only in a present, non-negative
\* debt_to_equity, the one with the lower value scores at least as high
LowerDebtScoresAtLeastAsHigh ==
    [][(/\ last_op' = "debt"
        /\ stock.debt_to_equity # None
        /\ stock'.debt_to_equity # None
        /\ stock.debt_to_equity >= 0
        /\ stock'.debt_to_equity >= 0
        /\ stock'.debt_to_equity < stock.debt_to_equity)
            => score' >= score]_vars

\* C10: the score is non-negative, every rule family contributes one of the
\* bonuses of its table (or nothing), and the score never exceeds 230
ScoreIsBoundedSum ==
    score # None =>
        /\ score >= 0
        /\ score <= 23000
        /\ DiscountBonus1000(stock) \in 0..60000
        /\ MentionBonus(reddit_mentions) \in {0, 1000, 2000}
        /\ SentimentBonus(sentiment) \in {0, 1000, 1500}
        /\ RsiBonus(stock) \in {0, 1500, 2500}
        /\ PeBonus(stock) \in {0, 1000, 2000}
        /\ PegBonus(stock) \in {0, 2000}
        /\ DebtBonus(stock) \in {0, 1000, 1500}
        /\ FcfBonus(stock) \in {0, 1500}
        /\ InsiderBonus(stock) \in {0, 2000}
        /\ UpsideBonus(stock) \in {0, 1000, 2000}
        /\ 10 * score = DiscountBonus1000(stock)
             + 10 * (MentionBonus(reddit_mentions) + SentimentBonus(sentiment)
                     + RsiBonus(stock) + PeBonus(stock) + PegBonus(stock)
                     + DebtBonus(stock) + FcfBonus(stock)
                     + InsiderBonus(stock) + UpsideBonus(stock))

ScoreIsBoundedSumWitness ==
    /\ last_op = "score"
    /\ score = 23000

(***************************************************************************)
(* Properties of the per-stock calls (SpecAnalysis)                        *)
(***************************************************************************)
DivisionErrors == {"ZeroDivisionError", "TypeError"}

WithoutTarget(s) == [s EXCEPT !.target_price_mean = None]

\* C11: no call evaluates a ratio whose denominator is zero or absent, so no
\* call fails with a division error; and a snapshot whose price is zero or
\* absent gets nothing from the analyst-upside rules: its score is the score
\* it has without a target, it has no analyst-upside buy-case candidate and
\* no target-downside risk, and the target upside stored with it is empty
NoUpsideWithoutPrice ==
    /\ raised \notin DivisionErrors
    /\ ~Truthy(stock.current_price) =>
        /\ last_op = "score" =>
              /\ raised = ""
              /\ score = _calculate_score(WithoutTarget(stock),
                                          reddit_mentions, sentiment)
        /\ AnalystUpsidePoint(stock) = <<>>
        /\ DownsideRisk(stock) = <<>>
        /\ BuyCaseError(stock) \notin DivisionErrors
        /\ RiskFactorsError(stock) \notin DivisionErrors
        /\ last_op = "stored" => raised = "" /\ target_upside_pct = None

NoUpsideWithoutPriceWitness ==
    /\ last_op = "score"
    /\ stock.current_price = 0
    /\ stock.target_price_mean = 15000
    /\ stock.fifty_two_week_low > 0
    /\ raised = ""
    /\ score # None

\* a metric is available when the snapshot holds a value for it
Available(s, metric) ==
    IF metric = "insider_activity" THEN s.insider_activity # <<>>
    ELSE s[metric] # None

AvailableMetrics(s) ==
    {i \in 1..Len(SignalMetrics) : Available(s, SignalMetrics[i])}

\* C12: _count_signals puts every available metric in exactly one of the
\* three buckets and no unavailable metric in any, so the three counts add up
\* to the number of available metrics
SignalsPartitionAvailableMetrics ==
    last_op = "signals" =>
        /\ \A i \in 1..Len(SignalMetrics) :
              Available(stock, SignalMetrics[i])
                 <=> SignalOf(stock, SignalMetrics[i]) # ""
        /\ signals.bullish + signals.bearish + signals.neutral
              = Cardinality(AvailableMetrics(stock))

\* candidate j is selected before candidate i: higher weight, or equal weight
\* and earlier in the rule table
Precedes(c, j, i) ==
    \/ c[j].weight > c[i].weight
    \/ c[j].weight = c[i].weight /\ j < i

PositionOf(c, i) == 1 + Cardinality({j \in 1..Len(c) : Precedes(c, j, i)})

\* the texts of the k candidates that come first
HighestWeightFirst(c, k) ==
    [p \in 1..Min(k, Len(c)) |->
        c[CHOOSE i \in 1..Len(c) : PositionOf(c, i) = p].text]

\* C13: the buy case has at most 4 statements and the risk list at most 5;
\* when candidates qualified, the statements are those of the highest-weight
\* candidates, in non-increasing weight order, ties in rule-table order
StatementsAreHighestWeightFirst ==
    /\ last_op = "buy_case" =>
          /\ raised = ""
          /\ Len(buy_case) <= BUY_CASE_POINTS
          /\ WeightedPoints(stock, sentiment) # <<>> =>
                buy_case = HighestWeightFirst(WeightedPoints(stock, sentiment),
                                              BUY_CASE_POINTS)
    /\ last_op = "risks" =>
          /\ raised = ""
          /\ Len(risk_factors) <= RISK_FACTOR_COUNT
          /\ WeightedRisks(stock, now) # <<>> =>
                risk_factors = HighestWeightFirst(WeightedRisks(stock, now),
                                                  RISK_FACTOR_COUNT)

\* C14: every analyzed stock gets a non-empty buy case and a non-empty list
\* of non-empty risk statements; the fallback statement is produced exactly
\* when no candidate qualified, and is then the only statement
NarrativesNeverEmpty ==
    /\ last_op = "buy_case" =>
          /\ raised = ""
          /\ buy_case # <<>>
          /\ \A i \in 1..Len(buy_case) : buy_case[i] # <<>>
          /\ WeightedPoints(stock, sentiment) = <<>>
                <=> \E i \in 1..Len(buy_case) : IsBuyCaseFallback(buy_case[i])
          /\ WeightedPoints(stock, sentiment) = <<>>
                => buy_case = <<BuyCaseFallback(stock)>>
    /\ last_op = "risks" =>
          /\ raised = ""
          /\ risk_factors # <<>>
          /\ \A i \in 1..Len(risk_factors) : risk_factors[i] # <<>>
          /\ WeightedRisks(stock, now) = <<>>
                <=> \E i \in 1..Len(risk_factors) :
                        IsRiskFallback(risk_factors[i])
          /\ WeightedRisks(stock, now) = <<>>
                => risk_factors = <<RiskFallback(stock)>>

OptionalFundamentals ==
    {"rsi", "pe_ratio", "forward_pe", "pb_ratio", "peg_ratio",
     "debt_to_equity", "free_cash_flow", "profit_margin", "dividend_yield",
     "beta", "one_year_return", "short_interest", "institutional_ownership",
     "target_price_mean", "next_earnings_date"}

\* the provider had nothing but the identity and the price of the ticker
AllFundamentalsAbsent(s) ==
    /\ \A f \in OptionalFundamentals : s[f] = None
    /\ s.insider_activity = <<>>
    /\ s.pct_from_ath = 0
    /\ s.fifty_two_week_low = 0
    /\ s.analyst_count = 0
    /\ s.analyst_rating = ""

\* C15: a ticker whose optional fundamentals are all absent gets, whatever
\* its mention count and sentiment, the fallback sentence built from its
\* identity fields as its whole buy case
BareTickerGetsFallback ==
    (last_op = "buy_case" /\ AllFundamentalsAbsent(stock)) =>
        /\ raised = ""
        /\ buy_case = <<BuyCaseFallback(stock)>>

\* pct_from_ath 40, rsi 25, peg 0.6, D/E 0.2, FCF 2.0, 50 mentions, sentiment
\* 0.4, every other field absent
IsScenarioOne ==
    /\ stock.pct_from_ath = 4000
    /\ stock.rsi = 2500
    /\ stock.peg_ratio = 60
    /\ stock.debt_to_equity = 20
    /\ stock.free_cash_flow = 200
    /\ reddit_mentions = 50
    /\ sentiment = 40
    /\ \A f \in OptionalFundamentals \ {"rsi", "peg_ratio", "debt_to_equity",
                                       "free_cash_flow"} : stock[f] = None
    /\ stock.insider_activity = <<>>
    /\ stock.market_cap = 0
    /\ stock.fifty_two_week_low = 0

TemplatesOf(texts) == {texts[i][1] : i \in 1..Len(texts)}

\* C16: the snapshot of the first scenario scores above 50, and its buy case
\* has at most 4 statements, among them the RSI-oversold, the PEG and the
\* free-cash-flow statement, and no fallback
ScenarioOneBuyCase ==
    IsScenarioOne =>
        /\ last_op = "score" => raised = "" /\ score > 5000
        /\ last_op = "buy_case" =>
              /\ raised = ""
              /\ Len(buy_case) <= BUY_CASE_POINTS
              /\ "rsi_oversold" \in TemplatesOf(buy_case)
              /\ "peg" \in TemplatesOf(buy_case)
              /\ "fcf" \in TemplatesOf(buy_case)
              /\ \A i \in 1..Len(buy_case) : ~IsBuyCaseFallback(buy_case[i])

DaysAhead == 7

\* the next earnings date lies after `clock` and at most 7 days after it
EarningsWithinWeek(s, clock) ==
    /\ s.next_earnings_date # None
    /\ s.next_earnings_date > clock
    /\ s.next_earnings_date - clock <= DaysAhead * HoursPerDay

\* C17: when the next earnings date is in the future and at most 7 days
\* away, the first entry of the risk list is the earnings-proximity warning
EarningsWarningComesFirst ==
    (last_op = "risks" /\ EarningsWithinWeek(stock, now)) =>
        /\ raised = ""
        /\ risk_factors[1][1] = "earnings_in"

NoSurvivor == Analyze(stock_data_map, aggregated) = <<>>

\* C19: when no ticker survives the filters (none qualifies, or every
\* snapshot fetched is invalid) the run returns None, and the database is
\* left as it was: no report and no report row is added, and a report
\* already stored for the date is neither deleted nor altered
NoSurvivorLeavesStoreUnchanged ==
    [][/\ (pc = "fetched" /\ NoSurvivor) =>
             /\ pc' = "none"
             /\ db' = db
             /\ report_stocks' = <<>>
       /\ pc' = "none" => NoSurvivor /\ db' = db
       /\ pc' = "fetched" => db' = db]_vars

NoSurvivorLeavesStoreUnchangedWitness ==
    /\ pc = "none"
    /\ db = <<ExistingReport>>
    /\ Len(stock_data_map) >= 2
    /\ \A i \in 1..Len(stock_data_map) : ~market[stock_data_map[i]].is_valid

Analyzed == pc \in {"analyzed", "flagged", "ranked", "done"}

ValidFetched ==
    {stock_data_map[i] : i \in {j \in 1..Len(stock_data_map) :
                                   market[stock_data_map[j]].is_valid}}

CategoryOrder == <<"ai", "tech", "medical", "international">>

\* a keyword of the category occurs, whatever the case, in the sector text or
\* in the industry text
MatchesEitherText(category, s) ==
    AnyIn(category, Lower(s.sector)) \/ AnyIn(category, Lower(s.industry))

\* the first category of CategoryOrder with a match in either text, "other"
\* when there is none
FirstMatchingCategory(s) ==
    IF \E i \in 1..Len(CategoryOrder) : MatchesEitherText(CategoryOrder[i], s)
    THEN CategoryOrder[CHOOSE i \in 1..Len(CategoryOrder) :
            /\ MatchesEitherText(CategoryOrder[i], s)
            /\ \A j \in 1..(i - 1) : ~MatchesEitherText(CategoryOrder[j], s)]
    ELSE "other"

\* C21: _categorize_sector returns the first category, in the order ai, tech,
\* medical, international, whose keyword set has a case-insensitive substring
\* match in the sector text or the industry text, and other when none matches
CategoryIsFirstMatchInEitherText ==
    last_op = "category" => sector_category = FirstMatchingCategory(stock)

(***************************************************************************)
(* Properties of the dark-horse pass (SpecDarkHorse)                       *)
(***************************************************************************)
\* the fields the pass may write
DarkHorseFields == {"is_dark_horse", "dark_horse_reasons"}

\* C22: the dark-horse pass changes nothing but the is_dark_horse flag and
\* the dark_horse_reasons of the stocks it flags: every other field of every
\* stock (score, sector category, signal counts, buy case, risk factors),
\* every field of every unflagged stock, the snapshots, and the membership
\* and order of the analyzed list are as before the pass
DarkHorsePassChangesOnlyFlags ==
    [][pc = "analyzed" /\ pc' = "flagged" =>
        /\ Len(analyzed_stocks') = Len(analyzed_stocks)
        /\ market' = market
        /\ \A i \in 1..Len(analyzed_stocks) :
            /\ DOMAIN analyzed_stocks'[i] = DOMAIN analyzed_stocks[i]
            /\ \A f \in DOMAIN analyzed_stocks[i] \ DarkHorseFields :
                analyzed_stocks'[i][f] = analyzed_stocks[i][f]
            /\ ~analyzed_stocks'[i].is_dark_horse =>
                analyzed_stocks'[i] = analyzed_stocks[i]]_vars

\* the pass has run on a list with a stock it flags, whose narrative fields
\* are filled, and a stock it leaves alone
DarkHorsePassChangesOnlyFlagsWitness ==
    /\ pc = "flagged"
    /\ \E i, j \in 1..Len(analyzed_stocks) :
        /\ analyzed_stocks[i].is_dark_horse
        /\ analyzed_stocks[i].dark_horse_reasons # <<>>
        /\ analyzed_stocks[i].risk_factors # <<>>
        /\ analyzed_stocks[i].sector_category # ""
        /\ ~analyzed_stocks[j].is_dark_horse
        /\ Len(DarkHorseReasons(analyzed_stocks[j])) >= 1

(***************************************************************************)
(* Properties of the price-discount rule (SpecAnalysis)                    *)
(***************************************************************************)
\* the contribution the claim states for a drawdown d (hundredths of a
\* percent), in thousandths of a point
StatedDiscount1000(d) ==
    IF d < 1500 THEN 0
    ELSE IF d <= 5000 THEN 15 * Min(d, 4000)
    ELSE 40000

\* what the discount adds to the score of the snapshot just scored: its score
\* less the score of the same snapshot without a drawdown
DiscountContribution ==
    score - _calculate_score([stock EXCEPT !.pct_from_ath = 0],
                             reddit_mentions, sentiment)

\* C23: the price-discount contribution is 0 below 15%, 1.5 x min(drawdown,
\* 40) from 15% to 50% inclusive (60 at most), and 40 above 50%, so that a
\* drawdown above 50% never earns more than one of 40% to 50%
DiscountIsScaledThenFlat ==
    last_op = "score" /\ raised = "" =>
        /\ DiscountContribution
             = RoundDiv(StatedDiscount1000(stock.pct_from_ath), 10)
        /\ DiscountContribution <= 6000
        /\ stock.pct_from_ath > 5000 =>
             DiscountContribution <= RoundDiv(StatedDiscount1000(4000), 10)

\* a snapshot exactly 50% below its high has been scored
DiscountIsScaledThenFlatWitness ==
    /\ last_op = "score"
    /\ raised = ""
    /\ stock.pct_from_ath = 5000
    /\ DiscountContribution = 6000

(***************************************************************************)
(* Properties of the selection and of the report size (Spec)               *)
(***************************************************************************)
\* the tickers whose total mentions reach the minimum
Qualifiers ==
    {t \in DOMAIN aggregated :
        aggregated[t].total_mentions >= MIN_REDDIT_MENTIONS}

\* ticker t does not come after ticker u in the stated order: watchlist
\* tickers first, then the higher mention count
NotAfter(t, u) ==
    \/ aggregated[t].is_watchlist /\ ~aggregated[u].is_watchlist
    \/ /\ aggregated[t].is_watchlist = aggregated[u].is_watchlist
       /\ aggregated[t].total_mentions >= aggregated[u].total_mentions

\* C24: the tickers sent to the metrics provider are the first max_stocks of
\* the tickers with at least MIN_REDDIT_MENTIONS mentions, watchlist tickers
\* first and then by mention count descending; no ticker below the minimum
\* is fetched or scored, at most max_stocks tickers are analyzed, and no
\* non-watchlist ticker is analyzed while a qualifying watchlist ticker is
\* left out
FetchedAreFirstQualifiersByPriority ==
    pc \in {"fetched", "analyzed", "flagged", "ranked", "done", "none"} =>
        \A q \in {qualifying_tickers} :
            /\ \A i \in 1..Len(q) : q[i] \in Qualifiers
            /\ \A i, j \in 1..Len(q) : i < j =>
                  q[i] # q[j] /\ NotAfter(q[i], q[j])
            /\ Len(q) = Min(Cardinality(Qualifiers), max_stocks)
            /\ \A t \in Qualifiers :
                  (\A i \in 1..Len(q) : q[i] # t) =>
                      \A i \in 1..Len(q) : NotAfter(q[i], t)
            /\ stock_data_map = q
            /\ Len(analyzed_stocks) <= max_stocks
            /\ \A k \in 1..Len(analyzed_stocks) :
                  /\ \E i \in 1..Len(q) : q[i] = analyzed_stocks[k].ticker
                  /\ analyzed_stocks[k].reddit_mentions >= MIN_REDDIT_MENTIONS
                  /\ ~aggregated[analyzed_stocks[k].ticker].is_watchlist =>
                        \A w \in Qualifiers :
                            aggregated[w].is_watchlist =>
                                \E i \in 1..Len(q) : q[i] = w

\* the list was cut at max_stocks: a watchlist ticker with few mentions was
\* analyzed and a ticker with more mentions, not on the watchlist, was left
\* out
FetchedAreFirstQualifiersByPriorityWitness ==
    /\ pc = "analyzed"
    /\ Len(qualifying_tickers) = max_stocks
    /\ Cardinality(Qualifiers) > max_stocks
    /\ \E k \in 1..Len(analyzed_stocks), t \in Qualifiers :
        /\ aggregated[analyzed_stocks[k].ticker].is_watchlist
        /\ \A i \in 1..Len(qualifying_tickers) : qualifying_tickers[i] # t
        /\ aggregated[t].total_mentions > analyzed_stocks[k].reddit_mentions

\* the numbers of unflagged and of dark-horse-flagged analyzed stocks
UnflaggedCount == Len(Unflagged(analyzed_stocks))

FlaggedCount == Len(analyzed_stocks) - UnflaggedCount

\* C25: a produced report has min(U, TOP_STOCKS_COUNT - DARK_HORSE_COUNT)
\* + min(D, DARK_HORSE_COUNT) entries, U and D being the numbers of unflagged
\* and flagged analyzed stocks; never more than TOP_STOCKS_COUNT; a flagged
\* stock beyond the first DARK_HORSE_COUNT dark horses is left out, even when
\* main-pick slots remain unfilled
ReportSizeIsCappedPerGroup ==
    pc = "done" =>
        /\ Len(report_stocks)
             = Min(UnflaggedCount, TOP_STOCKS_COUNT - DARK_HORSE_COUNT)
               + Min(FlaggedCount, DARK_HORSE_COUNT)
        /\ Len(report_stocks) <= TOP_STOCKS_COUNT
        /\ Len(dark_horses) = FlaggedCount
        /\ \A k \in 1..Len(dark_horses) :
              k > DARK_HORSE_COUNT =>
                  \A i \in 1..Len(report_stocks) :
                      report_stocks[i].ticker # dark_horses[k]

\* a report was produced from more flagged stocks than DARK_HORSE_COUNT and
\* fewer unflagged stocks than there are main-pick slots
ReportSizeIsCappedPerGroupWitness ==
    /\ pc = "done"
    /\ FlaggedCount > DARK_HORSE_COUNT
    /\ UnflaggedCount < TOP_STOCKS_COUNT - DARK_HORSE_COUNT
    /\ UnflaggedCount > 0
    /\ Len(report_stocks) < TOP_STOCKS_COUNT

(***************************************************************************)
(* Properties of the stored reports (SpecSessions)                         *)
(***************************************************************************)
\* the committed reports of the day of the runs
ReportsOfDate(reports) ==
    SelectSeq(reports, LAMBDA r : r.report_date = ReportDate(now))

\* C26: when a run succeeds, the database holds exactly one DailyReport for
\* its report_date, whose entries are exactly the final picks of that run,
\* the most recent one; the report the run found is gone with its entries
SuccessfulRunReplacesReport ==
    [][\A c \in Callers :
          sessions[c].pc = "added" /\ sessions'[c].pc = "returned" =>
              \A stored \in {ReportsOfDate(db')} :
                  /\ Len(stored) = 1
                  /\ stored[1].id = <<c, sessions[c].serial>>
                  /\ stored[1].report_stocks = RowsOf(c)
                  /\ \A i \in 1..Len(db') : db'[i].id # sessions[c].existing
      ]_vars

\* a run has just succeeded, alone, and replaced the report that an earlier
\* run of another caller had stored in place of the first one
SuccessfulRunReplacesReportWitness ==
    \E c \in Callers :
        /\ sessions[c].pc = "returned"
        /\ sessions[c].existing # <<>>
        /\ sessions[c].existing[1] \in Callers \ {c}
        /\ \A d \in Callers \ {c} : sessions[d].pc \in {"idle", "closed"}
        /\ Len(db) = 1
        /\ db[1].id[1] = c

\* C27: whatever the interleaving of concurrent runs for one report_date,
\* the committed database never holds two DailyReport rows of that date, and
\* every committed report has its complete set of entries, ranked 1..N
OneCompleteReportPerDate ==
    /\ \A i, j \in 1..Len(db) :
          db[i].report_date = db[j].report_date => i = j
    /\ \A i \in 1..Len(db) :
          /\ Len(db[i].report_stocks) >= 1
          /\ \A k \in 1..Len(db[i].report_stocks) :
                db[i].report_stocks[k].rank = k
          /\ db[i].id[1] \in Callers =>
                db[i].report_stocks = RowsOf(db[i].id[1])

\* two runs overlapped: one has committed its report, the other, which had
\* looked for an existing report before that commit, was refused its insert
OneCompleteReportPerDateWitness ==
    \E c, d \in Callers :
        /\ c # d
        /\ sessions[c].pc = "returned"
        /\ sessions[d].raised = "IntegrityError"
        /\ \A i \in 1..Len(db) : db[i].id # sessions[d].existing
        /\ \E i \in 1..Len(db) : db[i].id[1] = c

\* C28: a run that fails after it has deleted the existing report and before
\* its commit leaves the committed database unchanged: the step that fails
\* and the close that follows change nothing, the previous report is still
\* there with its entries, and no report of the failed run is visible
FailedRunLeavesDatabaseUnchanged ==
    [][\A c \in Callers :
          /\ sessions'[c].pc \notin {sessions[c].pc, "returned"} => db' = db
          /\ sessions'[c].pc = "raised" =>
                /\ \A i \in 1..Len(db') :
                      db'[i].id # <<c, sessions'[c].serial>>
                /\ sessions'[c].deleted # <<>> =>
                      \E i \in 1..Len(db') :
                          /\ db'[i].id = sessions'[c].deleted
                          /\ Len(db'[i].report_stocks) >= 1
      ]_vars

\* a run has failed after deleting the report it found, and that report is
\* in the committed database
FailedRunLeavesDatabaseUnchangedWitness ==
    \E c \in Callers :
        /\ sessions[c].pc = "raised"
        /\ sessions[c].deleted = <<"earlier", 0>>
        /\ \E i \in 1..Len(db) : db[i].id = <<"earlier", 0>>

\* C29: every invocation of the scheduled job ends without propagating an
\* exception and with its session closed, whether generate_report returned a
\* report, returned None or raised; the job can then be run again
ScheduledJobEndsQuietly ==
    /\ sessions["scheduled"].pc = "closed" =>
          /\ ~sessions["scheduled"].propagated
          /\ ~sessions["scheduled"].open
          /\ ENABLED StartRun("scheduled")
    /\ sessions["scheduled"].pc \in {"returned", "none", "raised"} =>
          ENABLED EndRun("scheduled")

\* the scheduled job has ended after generate_report raised
ScheduledJobEndsQuietlyWitness ==
    /\ sessions["scheduled"].pc = "closed"
    /\ sessions["scheduled"].raised # ""

\* C30: every call to _make_request eventually returns a response body or
\* None, also when every attempt is answered with status 429
RequestEventuallyReturns ==
    <>(/\ request.pc = "ended"
       /\ request.raised = ""
       /\ request.result \in {"body", "None"})

====
